---- MODULE Spec2Model ----
(***************************************************************************)
(* gitgraph: the contribution analytics of server.js.                      *)
(*                                                                         *)
(* Time.  An instant (a JavaScript Date's time value) is a whole number of *)
(* hours since 1970-01-01T00:00Z.  A date string "YYYY-MM-DD" is the       *)
(* triple <<year, month, day>>; ordering date strings is the lexicographic *)
(* order of the triples.  The host's time zone is part of the state: the   *)
(* code mixes the UTC reading of a Date (toISOString, new Date(string))    *)
(* with its local reading (getDate, setDate, getDay, getFullYear,          *)
(* setFullYear).                                                           *)
(***************************************************************************)
EXTENDS Integers, Sequences, FiniteSets, TLC

VARIABLES
    tz,             \* the host's time zone (process environment)
    pc,             \* position of the running handler or helper call
    contributions,  \* argument of the helper under call: list of {date, count}
    rollingDays,    \* argument of calculateRollingSums
    rollingSums,    \* value returned by calculateRollingSums
    sortedContributions, \* calculateStreaks: the sorted copy of its argument
    scanIndex,      \* calculateStreaks: the loop index i, counted from 1
    scan,           \* calculateStreaks: streaks, currentStreak, streakStart
    streakAnalysis, \* value returned by calculateStreaks
    analytics,      \* value returned by calculateAnalytics
    accountCreated, \* fetchAllContributions: its first argument, an instant
    now,            \* fetchAllContributions: its second argument, an instant
    currentDate,    \* fetchAllContributions: the end of the next window
    allContributions, \* fetchAllContributions: the local buffer
    calls,          \* the upstream calls issued so far: their {from, to}
    repliedDates,   \* the dates the upstream has sent in its replies so far
    fetchResult,    \* value returned by fetchAllContributions
    fetchError,     \* the error fetchAllContributions threw, or "none"
    period,         \* the request's period token
    currentResponse,  \* the reply to the current-period call (per-day route: to its call)
    previousResponse, \* comparison route: the reply to the previous-period call
    response,       \* the response sent to the caller, or <<>> before it is sent
    dateRange,      \* value returned by getDateRange
    dateRanges,     \* value returned by getComparisonDateRanges
    periodLength,   \* value returned by getRollingPeriodDays
    streakDays,     \* browser: value returned by calculateCurrentStreak
    currentTimeRange,     \* browser: this.currentTimeRange
    currentRollingPeriod, \* browser: this.currentRollingPeriod
    contributionData,     \* browser: this.contributionData, the data shown
    rollingData,    \* browser: this.rollingData
    display,        \* browser: style.display of loading, mainContent, errorMessage
    pending,        \* browser: the fetches in flight
    started,        \* browser: the number of fetches started so far
    consoleErrors,  \* browser: the loaders that have logged an error
    requests,       \* server: the requests being handled, by request number
    buffers         \* server: the arrays the handlers have allocated

rollingVars == <<rollingDays, rollingSums>>
streakVars == <<sortedContributions, scanIndex, scan, streakAnalysis>>
analyticsVars == <<analytics>>
fetchVars == <<accountCreated, now, currentDate, allContributions, calls,
               repliedDates, fetchResult, fetchError>>
compareVars == <<period, currentResponse, previousResponse, response>>
resolverVars == <<dateRange, dateRanges, periodLength>>
browserVars == <<streakDays, currentTimeRange, currentRollingPeriod, contributionData,
                 rollingData, display, pending, started, consoleErrors>>
serverVars == <<requests, buffers>>

vars == <<tz, pc, contributions, rollingVars, streakVars, analyticsVars, fetchVars,
          compareVars, resolverVars, browserVars, serverVars>>

----------------------------------------------------------------------------
(* Bounds of the model *)

\* longest list handed to calculateRollingSums
MaxRollLen == 3
\* number of calendar days the rolling inputs are drawn from
NumRollDates == 3
\* largest rolling window
MaxWindow == 3
\* largest per-day count in the small inputs
MaxCount == 1
\* longest of the short lists handed to calculateStreaks
MaxStreakLen == 3
\* number of calendar days the short streak inputs are drawn from
NumStreakDates == 3
\* longest list handed to calculateAnalytics
MaxAnalyticsLen == 2
\* number of calendar days the analytics inputs are drawn from
NumAnalyticsDates == 4
\* oldest account, in whole years before now (half a year is added to it)
MaxAccountYears == 2
\* most days the upstream sends during one fetchAllContributions run
MaxFetchedDays == 3
\* most days in one calendar the upstream sends to the comparison route
MaxCompareDays == 1
\* most days in the calendar the upstream sends to the per-day route
MaxPerDayDays == 2
\* number of requests the server handles at the same time
NumRequests == 2
\* most fetches the browser starts in one behaviour
MaxFetches == 5
\* longest list handed to the browser's calculateCurrentStreak
MaxCurrentLen == 3
\* number of calendar days, ending today, its inputs are drawn from
NumCurrentDates == 3

----------------------------------------------------------------------------
(* The calendar of the JavaScript Date object *)

HoursPerDay == 24

\* days from 1970-01-01 to the civil day y-m-d (proleptic Gregorian); a day of
\* the month outside the month rolls over, as Date's MakeDay does
DaysFromCivil(y, m, d) ==
    LET yy  == IF m <= 2 THEN y - 1 ELSE y
        era == yy \div 400
        yoe == yy - era * 400
        mp  == IF m > 2 THEN m - 3 ELSE m + 9
        doy == (153 * mp + 2) \div 5 + d - 1
        doe == yoe * 365 + yoe \div 4 - yoe \div 100 + doy
    IN  era * 146097 + doe - 719468

\* the civil day <<y, m, d>> of a day number
CivilFromDays(z) ==
    LET zz  == z + 719468
        era == zz \div 146097
        doe == zz - era * 146097
        yoe == (doe - doe \div 1460 + doe \div 36524 - doe \div 146096) \div 365
        doy == doe - (365 * yoe + yoe \div 4 - yoe \div 100)
        mp  == (5 * doy + 2) \div 153
        d   == doy - (153 * mp + 2) \div 5 + 1
        m   == IF mp < 10 THEN mp + 3 ELSE mp - 9
        y   == yoe + era * 400 + (IF m <= 2 THEN 1 ELSE 0)
    IN  <<y, m, d>>

\* day of the week of a day number, 0 = Sunday
WeekDay(z) == (z + 4) % 7

\* the first Sunday on or after the civil day y-m-d
SundayOnOrAfter(y, m, d) ==
    LET z == DaysFromCivil(y, m, d)
    IN  z + ((7 - WeekDay(z)) % 7)

\* Host time zones: std is the standard offset from UTC in hours; a zone
\* with dst = TRUE is one hour ahead of std from the second Sunday of March,
\* 02:00 standard time, to the first Sunday of November, 02:00 daylight time.
Zones ==
    { [name |-> "UTC",              std |-> 0,  dst |-> FALSE],
      [name |-> "America/New_York", std |-> -5, dst |-> TRUE],
      [name |-> "Asia/Tokyo",       std |-> 9,  dst |-> FALSE] }

InDst(zone, t) ==
    /\ zone.dst
    /\ LET y     == CivilFromDays(t \div HoursPerDay)[1]
           start == SundayOnOrAfter(y, 3, 8) * HoursPerDay + 2 - zone.std
           end   == SundayOnOrAfter(y, 11, 1) * HoursPerDay + 2 - (zone.std + 1)
       IN  start <= t /\ t < end

UtcOffset(zone, t) == zone.std + (IF InDst(zone, t) THEN 1 ELSE 0)

\* LocalTime(t): the local clock reading (hours since the local epoch)
LocalTime(zone, t) == t + UtcOffset(zone, t)

\* UTC(local): the instant of a local clock reading; a reading repeated at the
\* end of daylight time is the earlier instant, a reading skipped at its start
\* is read with the offset in force before the change
FromLocal(zone, local) ==
    LET early == local - (zone.std + 1)
        late  == local - zone.std
    IN  IF InDst(zone, early) THEN early ELSE late

\* new Date("YYYY-MM-DD"): a date-only string is midnight UTC of that day
ParseDate(s) == DaysFromCivil(s[1], s[2], s[3]) * HoursPerDay

\* formatDate(date): date.toISOString().split("T")[0], the UTC day
formatDate(t) == CivilFromDays(t \div HoursPerDay)

\* date.getDate() - j handed to date.setDate(): j local days back, the local
\* time of day kept
SetDateBack(zone, t, j) ==
    FromLocal(zone, LocalTime(zone, t) - j * HoursPerDay)

\* order of two date strings under Array.prototype.sort()'s default (string)
\* comparison
DateStrLess(a, b) ==
    \/ a[1] < b[1]
    \/ a[1] = b[1] /\ a[2] < b[2]
    \/ a[1] = b[1] /\ a[2] = b[2] /\ a[3] < b[3]

----------------------------------------------------------------------------
(* calculateRollingSums *)

RECURSIVE InsertDateStr(_, _)
InsertDateStr(sorted, s) ==
    IF sorted = <<>> THEN <<s>>
    ELSE IF DateStrLess(s, Head(sorted)) THEN <<s>> \o sorted
    ELSE <<Head(sorted)>> \o InsertDateStr(Tail(sorted), s)

\* contributions.map((c) => c.date).sort()
RECURSIVE SortDateStrings(_)
SortDateStrings(dates) ==
    IF dates = <<>> THEN <<>>
    ELSE InsertDateStr(SortDateStrings(SubSeq(dates, 1, Len(dates) - 1)),
                       dates[Len(dates)])

\* a Map that keeps the count a date was first set to
ContributionMap_FirstWins(contribs) ==
    [d \in {contribs[i].date : i \in DOMAIN contribs} |->
        contribs[CHOOSE i \in DOMAIN contribs :
                    /\ contribs[i].date = d
                    /\ \A k \in DOMAIN contribs :
                          contribs[k].date = d => i <= k].count]

\* a Map filled by set(date, count) in list order: the last entry of a date wins
ContributionMap(contribs) ==
    [d \in {contribs[i].date : i \in DOMAIN contribs} |->
        contribs[CHOOSE i \in DOMAIN contribs :
                    /\ contribs[i].date = d
                    /\ \A k \in DOMAIN contribs :
                          contribs[k].date = d => k <= i].count]

\* contributionMap.get(dateStr) || 0
\* MapGetOrZero without the `|| 0`: an absent day is not counted as 0
MapGetOrZero_AbsentCounts(map, dateStr) ==
    IF dateStr \in DOMAIN map THEN map[dateStr] ELSE 1

MapGetOrZero(map, dateStr) ==
    IF dateStr \in DOMAIN map THEN map[dateStr] ELSE 0

\* the inner loop: the sum over j = 0 .. rollingDays - 1
RECURSIVE WindowSum(_, _, _, _)
WindowSum(zone, map, current, n) ==
    IF n = 0 THEN 0
    ELSE WindowSum(zone, map, current, n - 1)
         + MapGetOrZero(map, formatDate(SetDateBack(zone, current, n - 1)))

calculateRollingSums(zone, contribs, days) ==
    LET contributionMap == ContributionMap(contribs)
        sortedDates == SortDateStrings([i \in DOMAIN contribs |-> contribs[i].date])
    IN  [i \in DOMAIN sortedDates |->
            [date |-> sortedDates[i],
             rollingSum |-> WindowSum(zone, contributionMap,
                                      ParseDate(sortedDates[i]), days)]]

----------------------------------------------------------------------------
(* calculateStreaks *)

\* a JavaScript number that need not be whole: <<"num", n, d>> is n/d in lowest
\* terms with d > 0; NaN and undefined are values of their own
RECURSIVE Gcd(_, _)
Gcd(a, b) == IF b = 0 THEN a ELSE Gcd(b, a % b)

Abs(x) == IF x < 0 THEN -x ELSE x

Num(n, d) ==
    LET g == Gcd(Abs(n), Abs(d))
        sign == IF d < 0 THEN -1 ELSE 1
    IN  <<"num", sign * (n \div g), sign * (d \div g)>>

NaN == <<"NaN", 0, 1>>
Undefined == <<"undefined", 0, 1>>

\* streakStart = null
NoDate == <<>>

\* the stable sort by (a, b) => new Date(a.date) - new Date(b.date): an entry's
\* place is the number of entries that sort before it, itself included
SortByDate(contribs) ==
    LET time == [i \in DOMAIN contribs |-> ParseDate(contribs[i].date)]
        place == [i \in DOMAIN contribs |->
                    Cardinality({k \in DOMAIN contribs :
                        \/ time[k] - time[i] < 0
                        \/ time[k] - time[i] = 0 /\ k <= i})]
    IN  [p \in DOMAIN contribs |->
            contribs[CHOOSE i \in DOMAIN contribs : place[i] = p]]

\* the loop's variables before its first pass
ScanStart == [streaks |-> <<>>, currentStreak |-> 0, streakStart |-> NoDate]

\* ScanStep with a streak's endDate taken from the zero-count entry that closes
\* it instead of the entry before
ScanStep_EndAtClosingEntry(sorted, i, st) ==
    LET contribution == sorted[i]
    IN  IF contribution.count > 0
        THEN [st EXCEPT !.streakStart =
                            IF st.currentStreak = 0 THEN contribution.date ELSE @,
                        !.currentStreak = @ + 1]
        ELSE IF st.currentStreak > 0
        THEN [streaks |-> Append(st.streaks,
                                 [length |-> st.currentStreak,
                                  startDate |-> st.streakStart,
                                  endDate |-> sorted[i].date]),
              currentStreak |-> 0,
              streakStart |-> NoDate]
        ELSE st

\* ScanStep for streaks of calendar days: an entry with activity that does not
\* fall on the day after the entry before it closes the open streak and starts
\* a new one
ScanStep_BreakAtMissingDay(sorted, i, st) ==
    LET contribution == sorted[i]
        gap == /\ i > 1
               /\ st.currentStreak > 0
               /\ ParseDate(contribution.date) - ParseDate(sorted[i - 1].date) > HoursPerDay
        closed == [streaks |-> Append(st.streaks,
                                      [length |-> st.currentStreak,
                                       startDate |-> st.streakStart,
                                       endDate |-> sorted[i - 1].date]),
                   currentStreak |-> 0,
                   streakStart |-> NoDate]
    IN  IF contribution.count > 0
        THEN IF gap
             THEN [closed EXCEPT !.streakStart = contribution.date, !.currentStreak = 1]
             ELSE [st EXCEPT !.streakStart =
                                 IF st.currentStreak = 0 THEN contribution.date ELSE @,
                             !.currentStreak = @ + 1]
        ELSE IF st.currentStreak > 0
        THEN closed
        ELSE st

\* one pass of the for loop's body, at index i (1-based) of the sorted list
ScanStep(sorted, i, st) ==
    LET contribution == sorted[i]
        hasActivity == contribution.count > 0
    IN  IF hasActivity
        THEN [st EXCEPT !.streakStart =
                            IF st.currentStreak = 0 THEN contribution.date ELSE @,
                        !.currentStreak = @ + 1]
        ELSE IF st.currentStreak > 0
        THEN [streaks |-> Append(st.streaks,
                                 [length |-> st.currentStreak,
                                  startDate |-> st.streakStart,
                                  endDate |-> sorted[i - 1].date]),
              currentStreak |-> 0,
              streakStart |-> NoDate]
        ELSE st

\* the for loop over the sorted list, from index i to the end
RECURSIVE ScanFrom(_, _, _)
ScanFrom(sorted, i, st) ==
    IF i > Len(sorted) THEN st
    ELSE ScanFrom(sorted, i + 1, ScanStep(sorted, i, st))

\* CloseOpenStreak without the push of the streak that is open after the loop
CloseOpenStreak_Dropped(sorted, st) == st.streaks

\* "Handle case where period ends with an active streak"
CloseOpenStreak(sorted, st) ==
    IF st.currentStreak > 0
    THEN Append(st.streaks,
                [length |-> st.currentStreak,
                 startDate |-> st.streakStart,
                 endDate |-> sorted[Len(sorted)].date])
    ELSE st.streaks

FindStreaks(sorted) ==
    CloseOpenStreak(sorted, ScanFrom(sorted, 1, ScanStart))

\* the keys of streakFrequency: the lengths 1 .. 30 as property names, and "31+"
MaxBucket == 30
LengthKey ==
    <<"1", "2", "3", "4", "5", "6", "7", "8", "9", "10",
      "11", "12", "13", "14", "15", "16", "17", "18", "19", "20",
      "21", "22", "23", "24", "25", "26", "27", "28", "29", "30">>
OverflowKey == "31+"
FrequencyKeys == {LengthKey[i] : i \in 1 .. MaxBucket} \cup {OverflowKey}

\* the bucket a streak length is counted in
BucketOf(length) ==
    IF length <= MaxBucket THEN LengthKey[length] ELSE OverflowKey

StreakFrequency(streaks) ==
    [k \in FrequencyKeys |->
        Cardinality({i \in DOMAIN streaks : BucketOf(streaks[i].length) = k})]

RECURSIVE MaxLength(_, _)
MaxLength(streaks, longest) ==
    IF streaks = <<>> THEN longest
    ELSE MaxLength(Tail(streaks),
                   IF Head(streaks).length > longest
                   THEN Head(streaks).length ELSE longest)

RECURSIVE SumLengths(_)
SumLengths(streaks) ==
    IF streaks = <<>> THEN 0 ELSE Head(streaks).length + SumLengths(Tail(streaks))

AverageStreakLength(streaks) ==
    IF Len(streaks) > 0 THEN Num(SumLengths(streaks), Len(streaks)) ELSE Num(0, 1)

\* the early return for an empty list
EmptyStreakResult ==
    [streaks |-> <<>>,
     streakFrequency |-> <<>>,
     longestStreak |-> 0,
     totalStreaks |-> 0]

\* the returned object, from the list of streaks
StreakResult(streaks) ==
    [streaks |-> streaks,
     streakFrequency |-> StreakFrequency(streaks),
     longestStreak |-> MaxLength(streaks, 0),
     totalStreaks |-> Len(streaks),
     averageStreakLength |-> AverageStreakLength(streaks)]

calculateStreaks(contribs) ==
    IF Len(contribs) = 0
    THEN EmptyStreakResult
    ELSE StreakResult(FindStreaks(SortByDate(contribs)))

----------------------------------------------------------------------------
(* calculateAnalytics *)

\* date.getDay() and date.getFullYear(): the local day of the week and year
GetDay(zone, t) == WeekDay(LocalTime(zone, t) \div HoursPerDay)
GetFullYear(zone, t) == CivilFromDays(LocalTime(zone, t) \div HoursPerDay)[1]

dayNames ==
    [i \in 0 .. 6 |->
        <<"Sunday", "Monday", "Tuesday", "Wednesday", "Thursday", "Friday",
          "Saturday">>[i + 1]]

\* dayNames[index].substring(0, 3)
dayShortNames ==
    [i \in 0 .. 6 |-> <<"Sun", "Mon", "Tue", "Wed", "Thu", "Fri", "Sat">>[i + 1]]

IntensityKeys == {"0", "1-3", "4-10", "11-20", "21+"}

\* IntensityBucket with the bounds of the if-chain read as strict
IntensityBucket_StrictBounds(count) ==
    IF count = 0 THEN "0"
    ELSE IF count < 3 THEN "1-3"
    ELSE IF count < 10 THEN "4-10"
    ELSE IF count < 20 THEN "11-20"
    ELSE "21+"

\* the if-chain that picks the bucket of a day
IntensityBucket(count) ==
    IF count = 0 THEN "0"
    ELSE IF count <= 3 THEN "1-3"
    ELSE IF count <= 10 THEN "4-10"
    ELSE IF count <= 20 THEN "11-20"
    ELSE "21+"

\* the accumulators before the first entry
AnalyticsStart ==
    [weeklyPattern |-> [i \in 0 .. 6 |-> 0],
     intensityBuckets |-> [k \in IntensityKeys |-> 0],
     yearlyData |-> <<>>]

\* yearlyData after an entry of year `year`, with the entry's count assigned
\* instead of added
AddToYear_Assign(yearlyData, year, count) ==
    [y \in DOMAIN yearlyData \cup {year} |->
        IF y = year THEN count ELSE yearlyData[y]]

\* if (!yearlyData[year]) yearlyData[year] = 0; yearlyData[year] += day.count
AddToYear(yearlyData, year, count) ==
    [y \in DOMAIN yearlyData \cup {year} |->
        IF y = year
        THEN (IF y \in DOMAIN yearlyData /\ yearlyData[y] # 0
              THEN yearlyData[y] ELSE 0) + count
        ELSE yearlyData[y]]

\* the body of contributions.forEach
AnalyticsStep(zone, acc, day) ==
    LET date == ParseDate(day.date)
        dayOfWeek == GetDay(zone, date)
        year == GetFullYear(zone, date)
    IN  [weeklyPattern |-> [acc.weeklyPattern EXCEPT ![dayOfWeek] = @ + day.count],
         intensityBuckets |->
            [acc.intensityBuckets EXCEPT ![IntensityBucket(day.count)] = @ + 1],
         yearlyData |-> AddToYear(acc.yearlyData, year, day.count)]

RECURSIVE AnalyticsFold(_, _, _, _)
AnalyticsFold(zone, contribs, i, acc) ==
    IF i > Len(contribs) THEN acc
    ELSE AnalyticsFold(zone, contribs, i + 1, AnalyticsStep(zone, acc, contribs[i]))

calculateAnalytics(zone, contribs) ==
    LET acc == AnalyticsFold(zone, contribs, 1, AnalyticsStart)
    IN  [weeklyPattern |->
            [index \in 0 .. 6 |->
                [day |-> dayNames[index],
                 dayShort |-> dayShortNames[index],
                 count |-> acc.weeklyPattern[index]]],
         intensityDistribution |-> acc.intensityBuckets,
         yearlyData |-> acc.yearlyData]

----------------------------------------------------------------------------
(* fetchAllContributions *)

\* date.setFullYear(date.getFullYear() - 1): the same local month, day and time
\* of day one year earlier (29 February becomes 1 March)
SetFullYearBack(zone, t) ==
    LET local == LocalTime(zone, t)
        civil == CivilFromDays(local \div HoursPerDay)
        day   == DaysFromCivil(civil[1] - 1, civil[2], civil[3])
    IN  FromLocal(zone, day * HoursPerDay + (local % HoursPerDay))

\* WindowStart without "Don't go before account creation"
WindowStart_Unclamped(zone, windowEnd, created) == SetFullYearBack(zone, windowEnd)

\* yearStart: one year before the window's end, not before the account's creation
WindowStart(zone, windowEnd, created) ==
    LET yearStart == SetFullYearBack(zone, windowEnd)
    IN  IF yearStart < created THEN created ELSE yearStart

\* the two nested forEach: every day of every week, in order
RECURSIVE FlattenWeeks(_)
FlattenWeeks(weeks) ==
    IF weeks = <<>> THEN <<>>
    ELSE [i \in DOMAIN Head(weeks).contributionDays |->
            [date |-> Head(weeks).contributionDays[i].date,
             count |-> Head(weeks).contributionDays[i].contributionCount]]
         \o FlattenWeeks(Tail(weeks))

\* the entries of the Map uniqueContributions, in insertion order: a date stands
\* where it was first set and holds the count it was last set to
RECURSIVE MapEntries(_, _)
MapEntries(all, i) ==
    IF i > Len(all) THEN <<>>
    ELSE (IF \E k \in 1 .. i - 1 : all[k].date = all[i].date
          THEN <<>>
          ELSE <<[date |-> all[i].date, count |-> ContributionMap(all)[all[i].date]]>>)
         \o MapEntries(all, i + 1)

\* UniqueContributions without the Map: every buffered entry is kept
UniqueContributions_Kept(all) == all

\* "Remove duplicates"
UniqueContributions(all) == MapEntries(all, 1)

\* the value returned after the loop
FetchReturnValue(all) == SortByDate(UniqueContributions(all))

----------------------------------------------------------------------------
(* Period tokens, and the comparison route *)

\* a Date: its time value, or Invalid Date (a time value of NaN)
Date(t) == <<"date", t>>
InvalidDate == <<"invalid", 0>>
IsValidDate(date) == date[1] = "date"

\* what a property read gives when the key is not an own property of an object
\* literal but one that every object inherits (a function or an object, never a
\* number or a Date)
InheritedProperty == <<"object", 0, 1>>
ObjectPrototypeKeys ==
    {"constructor", "toString", "toLocaleString", "valueOf", "hasOwnProperty",
     "isPrototypeOf", "propertyIsEnumerable", "__proto__"}

\* the keys of the three period tables, and their values
PeriodKeys == {"1week", "1month", "90day", "6month", "1year"}
PeriodTable(key) ==
    CASE key = "1week"  -> 7
      [] key = "1month" -> 30
      [] key = "90day"  -> 90
      [] key = "6month" -> 180
      [] key = "1year"  -> 365

\* periodDays[period] || 30: a number, or the inherited property
periodDays(token) ==
    IF token \in PeriodKeys THEN Num(PeriodTable(token), 1)
    ELSE IF token \in ObjectPrototypeKeys THEN InheritedProperty
    ELSE Num(30, 1)

\* new Date(date - days * 24 * 60 * 60 * 1000): Invalid Date when the date is
\* invalid or days is not a number
DaysBefore(date, days) ==
    IF IsValidDate(date) /\ days[1] = "num"
    THEN Date(date[2] - days[2] * HoursPerDay)
    ELSE InvalidDate

\* the two ranges, from the clock reading `clock`
getComparisonDateRanges(token, clock) ==
    LET days == periodDays(token)
        currentTo == Date(clock)
        currentFrom == DaysBefore(currentTo, days)
        previousTo == currentFrom
        previousFrom == DaysBefore(currentFrom, days)
    IN  [current  |-> [from |-> currentFrom, to |-> currentTo],
         previous |-> [from |-> previousFrom, to |-> previousTo]]

\* ranges[period] || ranges["1month"], with to = now
getDateRange(token, clock) ==
    [from |-> IF token \in PeriodKeys
              THEN DaysBefore(Date(clock), Num(PeriodTable(token), 1))
              ELSE IF token \in ObjectPrototypeKeys THEN InheritedProperty
              ELSE DaysBefore(Date(clock), Num(PeriodTable("1month"), 1)),
     to |-> Date(clock)]

\* periods[period] || 30
getRollingPeriodDays(token) ==
    IF token \in PeriodKeys THEN Num(PeriodTable(token), 1)
    ELSE IF token \in ObjectPrototypeKeys THEN InheritedProperty
    ELSE Num(30, 1)

\* the arguments {from, to} of an upstream call, from a range of valid Dates
CallWindow(range) == [from |-> range.from[2], to |-> range.to[2]]

\* an upstream reply is [errors, user]: errors is <<>> when the reply has no
\* errors member, user is <<>> when data.user is null
IsNull(value) == DOMAIN value = {}
HasErrors(reply) == reply.errors # <<>>

\* the flat list of a reply's calendar, left in the order of the reply
SortedContributions_ReplyOrder(data) == FlattenWeeks(data.contributionCalendar.weeks)

\* the flat list of a reply's calendar, sorted by date
SortedContributions(data) == SortByDate(FlattenWeeks(data.contributionCalendar.weeks))

RECURSIVE SumCounts(_)
SumCounts(contribs) ==
    IF contribs = <<>> THEN 0 ELSE Head(contribs).count + SumCounts(Tail(contribs))

\* currentSummary / previousSummary
Summary(data, contribs) ==
    [totalCommits |-> data.totalCommitContributions,
     totalIssues |-> data.totalIssueContributions,
     totalPRs |-> data.totalPullRequestContributions,
     totalReviews |-> data.totalPullRequestReviewContributions,
     totalDays |-> Len(contribs),
     activeDays |-> Cardinality({i \in DOMAIN contribs : contribs[i].count > 0}),
     totalContributions |-> SumCounts(contribs)]

\* a property read: undefined when the object has no such property
GetProperty(object, key) == IF key \in DOMAIN object THEN object[key] ELSE Undefined

IsNumber(value) == value[1] = "num"

\* calculateChange with the test previous === 0 left out
calculateChange_NoZeroTest(current, previous) ==
    IF ~IsNumber(current) \/ ~IsNumber(previous) \/ previous[2] = 0
    THEN NaN
    ELSE Num(100 * (current[2] * previous[3] - previous[2] * current[3]),
             current[3] * previous[2])

\* calculateChange, on numbers held as fractions; an undefined operand of the
\* subtraction or the division makes the result NaN, and undefined > 0 is false
calculateChange(current, previous) ==
    IF previous = Num(0, 1)
    THEN (IF IsNumber(current) /\ current[2] > 0 THEN Num(100, 1) ELSE Num(0, 1))
    ELSE IF ~IsNumber(current) \/ ~IsNumber(previous)
    THEN NaN
    ELSE Num(100 * (current[2] * previous[3] - previous[2] * current[3]),
             current[3] * previous[2])

\* the object `changes`
Changes(currentSummary, previousSummary, currentStreakAnalysis, previousStreakAnalysis) ==
    [totalCommits |->
        calculateChange(Num(currentSummary.totalCommits, 1),
                        Num(previousSummary.totalCommits, 1)),
     totalIssues |->
        calculateChange(Num(currentSummary.totalIssues, 1),
                        Num(previousSummary.totalIssues, 1)),
     totalPRs |->
        calculateChange(Num(currentSummary.totalPRs, 1),
                        Num(previousSummary.totalPRs, 1)),
     totalReviews |->
        calculateChange(Num(currentSummary.totalReviews, 1),
                        Num(previousSummary.totalReviews, 1)),
     activeDays |->
        calculateChange(Num(currentSummary.activeDays, 1),
                        Num(previousSummary.activeDays, 1)),
     totalContributions |->
        calculateChange(Num(currentSummary.totalContributions, 1),
                        Num(previousSummary.totalContributions, 1)),
     longestStreak |->
        calculateChange(Num(currentStreakAnalysis.longestStreak, 1),
                        Num(previousStreakAnalysis.longestStreak, 1)),
     totalStreaks |->
        calculateChange(Num(currentStreakAnalysis.totalStreaks, 1),
                        Num(previousStreakAnalysis.totalStreaks, 1)),
     averageStreakLength |->
        calculateChange(GetProperty(currentStreakAnalysis, "averageStreakLength"),
                        GetProperty(previousStreakAnalysis, "averageStreakLength"))]

\* one period of the response: summary, contributions, analytics, streakAnalysis
PeriodData(zone, data) ==
    LET contribs == SortedContributions(data)
    IN  [summary |-> Summary(data, contribs),
         contributions |-> contribs,
         analytics |-> calculateAnalytics(zone, contribs),
         streakAnalysis |-> calculateStreaks(contribs)]

\* responseData
ComparisonData(zone, token, ranges, currentData, previousData) ==
    LET currentPeriod == PeriodData(zone, currentData)
        previousPeriod == PeriodData(zone, previousData)
    IN  [period |-> token,
         dateRanges |->
            [current  |-> [from |-> formatDate(ranges.current.from[2]),
                           to |-> formatDate(ranges.current.to[2])],
             previous |-> [from |-> formatDate(ranges.previous.from[2]),
                           to |-> formatDate(ranges.previous.to[2])]],
         current |-> currentPeriod,
         previous |-> previousPeriod,
         changes |-> Changes(currentPeriod.summary, previousPeriod.summary,
                             currentPeriod.streakAnalysis, previousPeriod.streakAnalysis)]

\* a catch block that sends nothing
FailureResponse_NothingSent(message) == <<>>

\* the catch block's response; message is error.message
FailureResponse(message) ==
    [status |-> 500,
     body |-> [error |-> "Failed to fetch comparison data", message |-> message]]

\* a handler that tests the current reply's errors only
ComparisonResponse_CurrentErrorsOnly(zone, token, ranges, current, previous) ==
    IF HasErrors(current)
    THEN [status |-> 400, body |-> [error |-> "GitHub API error",
                                    details |-> current.errors]]
    ELSE IF IsNull(current.user) \/ IsNull(previous.user)
    THEN FailureResponse("TypeError")
    ELSE [status |-> 200,
          body |-> ComparisonData(zone, token, ranges,
                                  current.user.contributionsCollection,
                                  previous.user.contributionsCollection)]

\* what the handler sends once both calls have resolved
ComparisonResponse(zone, token, ranges, current, previous) ==
    IF HasErrors(current) \/ HasErrors(previous)
    THEN [status |-> 400,
          body |-> [error |-> "GitHub API error",
                    details |-> current.errors \o previous.errors]]
    ELSE IF IsNull(current.user) \/ IsNull(previous.user)
    THEN FailureResponse("TypeError")
    ELSE [status |-> 200,
          body |-> ComparisonData(zone, token, ranges,
                                  current.user.contributionsCollection,
                                  previous.user.contributionsCollection)]

----------------------------------------------------------------------------
(* The per-day route *)

\* responseData of the per-day route
PerDayBody(zone, token, range, data, dailyContributions) ==
    [period |-> token,
     dateRange |-> [from |-> formatDate(range.from[2]),
                    to |-> formatDate(range.to[2])],
     summary |->
        [totalCommits |-> data.totalCommitContributions,
         totalIssues |-> data.totalIssueContributions,
         totalPRs |-> data.totalPullRequestContributions,
         totalReviews |-> data.totalPullRequestReviewContributions,
         totalDays |-> Len(dailyContributions),
         activeDays |-> Cardinality({i \in DOMAIN dailyContributions :
                                        dailyContributions[i].count > 0})],
     contributions |-> dailyContributions,
     analytics |-> calculateAnalytics(zone, dailyContributions)]

\* responseData for a reply's collection: the list is flattened and sorted
PerDayData(zone, token, range, data) ==
    PerDayBody(zone, token, range, data, SortedContributions(data))

\* the catch block's response
PerDayFailure(message) ==
    [status |-> 500,
     body |-> [error |-> "Failed to fetch contributions", message |-> message]]

\* what the handler sends once its call has resolved
PerDayResponse(zone, token, range, reply) ==
    IF HasErrors(reply)
    THEN [status |-> 400,
          body |-> [error |-> "GitHub API error", details |-> reply.errors]]
    ELSE IF IsNull(reply.user)
    THEN PerDayFailure("TypeError")
    ELSE [status |-> 200,
          body |-> PerDayData(zone, token, range, reply.user.contributionsCollection)]

----------------------------------------------------------------------------
(* The rolling route *)

\* the values Math.max() and Math.min() give for no arguments
PositiveInfinity == <<"Infinity", 0, 1>>
NegativeInfinity == <<"-Infinity", 0, 1>>

\* the number of passes of `for (j = 0; j < rollingDays; j++)`: none when
\* rollingDays is not a number (the comparison is false)
WindowPasses(days) == IF IsNumber(days) THEN days[2] ELSE 0

\* MathMax taking the first value for the largest
MathMax_First(values) ==
    IF values = <<>> THEN NegativeInfinity ELSE Num(values[1], 1)

\* Math.max(...rollingValues) and Math.min(...rollingValues)
MathMax(values) ==
    IF values = <<>> THEN NegativeInfinity
    ELSE Num(CHOOSE v \in {values[i] : i \in DOMAIN values} :
                \A i \in DOMAIN values : values[i] <= v, 1)
MathMin(values) ==
    IF values = <<>> THEN PositiveInfinity
    ELSE Num(CHOOSE v \in {values[i] : i \in DOMAIN values} :
                \A i \in DOMAIN values : v <= values[i], 1)

RECURSIVE SumValues(_)
SumValues(values) ==
    IF values = <<>> THEN 0 ELSE Head(values) + SumValues(Tail(values))

\* rollingValues.reduce((a, b) => a + b, 0) / rollingValues.length: 0 / 0 is NaN
Mean(values) ==
    IF values = <<>> THEN NaN ELSE Num(SumValues(values), Len(values))

\* Math.round: the nearest integer, halves rounded up; NaN and the infinities
\* are returned as they are
MathRound(value) ==
    IF IsNumber(value)
    THEN Num((2 * value[2] + value[3]) \div (2 * value[3]), 1)
    ELSE value

\* the summary of the rolling route
RollingSummary(sums, clock, created) ==
    LET rollingValues == [i \in DOMAIN sums |-> sums[i].rollingSum]
    IN  [maxRolling |-> MathRound(MathMax(rollingValues)),
         minRolling |-> MathRound(MathMin(rollingValues)),
         avgRolling |-> MathRound(Mean(rollingValues)),
         totalDays |-> Len(sums),
         accountAge |-> (clock - created) \div HoursPerDay]

\* responseData of the rolling route
RollingData(token, days, sums, clock, created) ==
    [rollingPeriod |-> token,
     rollingDays |-> days,
     dateRange |-> [from |-> formatDate(created), to |-> formatDate(clock)],
     summary |-> RollingSummary(sums, clock, created),
     rollingSums |-> sums]

\* error.message of what fetchAllContributions threw: the upstream's errors
\* for an error payload, the TypeError for a null user, the transport's message
FetchErrorMessage(kind) ==
    CASE kind = "upstream" -> <<"GitHub API error", <<"NOT_FOUND">>>>
      [] kind = "nouser" -> <<"TypeError">>
      [] kind = "transport" -> <<"transport">>

\* the catch block's response
RollingFailure(message) ==
    [status |-> 500,
     body |-> [error |-> "Failed to fetch rolling contributions", message |-> message]]

----------------------------------------------------------------------------
(* Inputs *)

RECURSIVE SeqsUpTo(_, _)
SeqsUpTo(S, n) ==
    IF n = 0 THEN {<<>>}
    ELSE LET shorter == SeqsUpTo(S, n - 1)
         IN  shorter \cup {Append(s, x) : s \in {t \in shorter : Len(t) = n - 1}, x \in S}

\* the days around the end of daylight time in 2024 (Sunday 3 November)
RollFirstDate == <<2024, 11, 2>>
RollDates ==
    {formatDate(ParseDate(RollFirstDate) + k * HoursPerDay) : k \in 0 .. NumRollDates - 1}

Entries(dates, counts) == {[date |-> d, count |-> c] : d \in dates, c \in counts}

DaysFrom(first, n) ==
    {formatDate(ParseDate(first) + k * HoursPerDay) : k \in 0 .. n - 1}

\* short day series, in any order, a date possibly more than once
StreakFirstDate == <<2024, 1, 1>>
ShortSeries ==
    SeqsUpTo(Entries(DaysFrom(StreakFirstDate, NumStreakDates), 0 .. MaxCount),
             MaxStreakLen)

\* the series of section 8 of the specification
ScenarioSeries ==
    << [date |-> <<2024, 1, 1>>, count |-> 0], [date |-> <<2024, 1, 2>>, count |-> 3],
       [date |-> <<2024, 1, 3>>, count |-> 5], [date |-> <<2024, 1, 4>>, count |-> 0] >>

\* one entry per calendar day, as the upstream calendar gives them: a active
\* days, one day without activity, b active days
RunSeries(a, b) ==
    [i \in 1 .. a + 1 + b |->
        [date |-> formatDate(ParseDate(StreakFirstDate) + (i - 1) * HoursPerDay),
         count |-> IF i = a + 1 THEN 0 ELSE 2]]

\* runs around the last histogram bucket
LongRuns ==
    { <<MaxBucket, 1>>, <<MaxBucket + 1, 0>>, <<1, MaxBucket + 2>>,
      <<MaxBucket - 1, MaxBucket + 1>> }
LongSeries == {RunSeries(r[1], r[2]) : r \in LongRuns}

\* analytics inputs: days on both sides of a new year, counts on both sides of
\* every bucket bound
AnalyticsFirstDate == <<2023, 12, 30>>
AnalyticsCounts == {0, 1, 3, 4, 10, 11, 20, 21}
AnalyticsInputs ==
    SeqsUpTo(Entries(DaysFrom(AnalyticsFirstDate, NumAnalyticsDates), AnalyticsCounts),
             MaxAnalyticsLen)

\* the clock readings of a fetch: noon UTC of a leap day, and of the day
\* daylight time ends
NowSamples == {ParseDate(<<2024, 2, 29>>) + 12, ParseDate(<<2024, 11, 3>>) + 12}

HalfYearHours == 182 * HoursPerDay

\* account creation instants: every half year back to MaxAccountYears and a half,
\* and the whole years before now on the host's calendar
RECURSIVE YearsBack(_, _, _)
YearsBack(zone, t, n) == IF n = 0 THEN t ELSE YearsBack(zone, SetFullYearBack(zone, t), n - 1)

AccountCreatedSamples(zone, t) ==
    {t - k * HalfYearHours : k \in 0 .. 2 * MaxAccountYears + 1}
        \cup {YearsBack(zone, t, n) : n \in 1 .. MaxAccountYears}

\* the days an upstream reply may hold, as the upstream sends them
UpstreamDates == {<<2023, 6, 14>>, <<2023, 6, 15>>}
UpstreamDays ==
    {[date |-> d, contributionCount |-> c] : d \in UpstreamDates, c \in 0 .. MaxCount}

\* a reply's calendar: its days in two weeks, cut after the first `cut` days
WeeksOf(days, cut) ==
    << [contributionDays |-> SubSeq(days, 1, cut)],
       [contributionDays |-> SubSeq(days, cut + 1, Len(days))] >>

\* the four totals of a reply: each takes the values 0, 5 and 10
TotalsSamples ==
    { [totalCommitContributions |-> 0, totalIssueContributions |-> 5,
       totalPullRequestContributions |-> 10, totalPullRequestReviewContributions |-> 5],
      [totalCommitContributions |-> 5, totalIssueContributions |-> 10,
       totalPullRequestContributions |-> 0, totalPullRequestReviewContributions |-> 0],
      [totalCommitContributions |-> 10, totalIssueContributions |-> 0,
       totalPullRequestContributions |-> 5, totalPullRequestReviewContributions |-> 10] }

\* a contributionsCollection: the totals and the days, in two weeks
Collection(totals, days) ==
    [totalCommitContributions |-> totals.totalCommitContributions,
     totalIssueContributions |-> totals.totalIssueContributions,
     totalPullRequestContributions |-> totals.totalPullRequestContributions,
     totalPullRequestReviewContributions |-> totals.totalPullRequestReviewContributions,
     contributionCalendar |-> [weeks |-> WeeksOf(days, (Len(days) + 1) \div 2)]]

\* the replies that carry a user, and those that carry none (with and without
\* an errors member)
DataReplies ==
    {[errors |-> <<>>, user |-> [contributionsCollection |-> Collection(totals, days)]] :
        totals \in TotalsSamples, days \in SeqsUpTo(UpstreamDays, MaxCompareDays)}
NoUserReplies ==
    {[errors |-> e, user |-> <<>>] : e \in {<<>>, <<"NOT_FOUND">>}}
\* a reply that carries both an errors member and a user
PartialReplies ==
    {[errors |-> <<"FORBIDDEN">>,
      user |-> [contributionsCollection |-> Collection(totals, <<>>)]] :
        totals \in TotalsSamples}

\* the replies to the per-day route that carry a user: a calendar of up to
\* MaxPerDayDays days, cut into two weeks at any place
PerDayReplies ==
    {[errors |-> <<>>,
      user |-> [contributionsCollection |->
                   [totalCommitContributions |-> totals.totalCommitContributions,
                    totalIssueContributions |-> totals.totalIssueContributions,
                    totalPullRequestContributions |-> totals.totalPullRequestContributions,
                    totalPullRequestReviewContributions |->
                        totals.totalPullRequestReviewContributions,
                    contributionCalendar |-> [weeks |-> WeeksOf(sent.days, sent.cut)]]]] :
        totals \in TotalsSamples,
        sent \in {pair \in {[days |-> days, cut |-> cut] :
                                days \in SeqsUpTo(UpstreamDays, MaxPerDayDays),
                                cut \in 0 .. MaxPerDayDays} :
                    pair.cut <= Len(pair.days)}}

\* every period token tried: the five known ones, an unknown one, and the names
\* every object inherits
PeriodTokens == PeriodKeys \cup {"bogus"} \cup ObjectPrototypeKeys

\* the period tokens of the requests: a known one, an unknown one and an
\* inherited name
ComparePeriods == {"1week", "bogus", "constructor"}
CompareClock == ParseDate(<<2024, 11, 3>>) + 12

\* the rolling route's requests: a known window, and an inherited name
RollingPeriods == {"1week", "constructor"}
\* the clock reading of the rolling route, and the created_at values of the
\* account: now, half a year and a year and a half before
RollingClock == ParseDate(<<2024, 11, 3>>) + 12
CreatedAtSamples == {RollingClock - k * HalfYearHours : k \in {0, 1, 3}}

StreakInputs == ShortSeries \cup {ScenarioSeries} \cup LongSeries

----------------------------------------------------------------------------
(* Rolling aggregator: a call of calculateRollingSums *)

\* the variables of the helpers that are not under call
IdleRolling == rollingDays = 0 /\ rollingSums = <<>>
IdleStreaks ==
    /\ sortedContributions = <<>>
    /\ scanIndex = 1
    /\ scan = ScanStart
    /\ streakAnalysis = <<>>
IdleAnalytics == analytics = <<>>
IdleFetchLoop ==
    /\ accountCreated = 0
    /\ currentDate = 0
    /\ allContributions = <<>>
    /\ repliedDates = {}
    /\ fetchResult = <<>>
    /\ fetchError = "none"
IdleFetch == now = 0 /\ calls = <<>> /\ IdleFetchLoop
IdleCompare ==
    /\ period = ""
    /\ currentResponse = <<>>
    /\ previousResponse = <<>>
    /\ response = <<>>
IdleResolver == dateRange = <<>> /\ dateRanges = <<>> /\ periodLength = <<>>
IdlePanels ==
    /\ currentTimeRange = ""
    /\ currentRollingPeriod = ""
    /\ contributionData = <<>>
    /\ rollingData = <<>>
    /\ display = <<>>
    /\ pending = {}
    /\ started = 0
    /\ consoleErrors = {}
IdleBrowser == streakDays = 0 /\ IdlePanels
IdleServer == requests = <<>> /\ buffers = <<>>

InitRolling ==
    /\ tz \in Zones
    /\ pc = "call"
    /\ contributions \in SeqsUpTo(Entries(RollDates, 0 .. MaxCount), MaxRollLen)
    /\ rollingDays \in 1 .. MaxWindow
    /\ rollingSums = <<>>
    /\ IdleStreaks
    /\ IdleAnalytics
    /\ IdleFetch
    /\ IdleCompare
    /\ IdleResolver
    /\ IdleBrowser
    /\ IdleServer

CallRollingSums ==
    /\ pc = "call"
    /\ rollingSums' = calculateRollingSums(tz, contributions, rollingDays)
    /\ pc' = "done"
    /\ UNCHANGED <<tz, contributions, rollingDays, streakVars, analyticsVars, fetchVars,
                   compareVars, resolverVars, browserVars, serverVars>>

NextRolling == CallRollingSums

SpecRolling == InitRolling /\ [][NextRolling]_vars

----------------------------------------------------------------------------
(* Analytics summarizer: a call of calculateAnalytics *)

InitAnalytics ==
    /\ tz \in Zones
    /\ pc = "call"
    /\ contributions \in AnalyticsInputs
    /\ analytics = <<>>
    /\ IdleRolling
    /\ IdleStreaks
    /\ IdleFetch
    /\ IdleCompare
    /\ IdleResolver
    /\ IdleBrowser
    /\ IdleServer

CallAnalytics ==
    /\ pc = "call"
    /\ analytics' = calculateAnalytics(tz, contributions)
    /\ pc' = "done"
    /\ UNCHANGED <<tz, contributions, rollingVars, streakVars, fetchVars,
                   compareVars, resolverVars, browserVars, serverVars>>

NextAnalytics == CallAnalytics

SpecAnalytics == InitAnalytics /\ [][NextAnalytics]_vars

----------------------------------------------------------------------------
(* Upstream fetcher: a run of fetchAllContributions, one await per step *)

InitFetch ==
    /\ tz \in Zones
    /\ pc = "loop"
    /\ contributions = <<>>
    /\ now \in NowSamples
    /\ accountCreated \in AccountCreatedSamples(tz, now)
    /\ currentDate = now
    /\ allContributions = <<>>
    /\ calls = <<>>
    /\ repliedDates = {}
    /\ fetchResult = <<>>
    /\ fetchError = "none"
    /\ IdleRolling
    /\ IdleStreaks
    /\ IdleAnalytics
    /\ IdleCompare
    /\ IdleResolver
    /\ IdleBrowser
    /\ IdleServer

otherVars == <<contributions, rollingVars, streakVars, analyticsVars, compareVars,
               resolverVars, browserVars, serverVars>>

\* FetchIssue without the await: the call is issued while the last one is
\* still in flight
FetchIssue_WithoutAwait ==
    /\ pc \in {"loop", "await"}
    /\ currentDate > accountCreated
    /\ Len(calls) <= MaxAccountYears
    /\ calls' = Append(calls, [from |-> WindowStart(tz, currentDate, accountCreated),
                               to |-> currentDate])
    /\ pc' = "await"
    /\ UNCHANGED <<tz, otherVars, accountCreated, now, currentDate,
                   allContributions, repliedDates, fetchResult, fetchError>>

\* the loop test holds: the window is computed and its call issued
FetchIssue ==
    /\ pc = "loop"
    /\ currentDate > accountCreated
    /\ calls' = Append(calls, [from |-> WindowStart(tz, currentDate, accountCreated),
                               to |-> currentDate])
    /\ pc' = "await"
    /\ UNCHANGED <<tz, otherVars, accountCreated, now, currentDate,
                   allContributions, repliedDates, fetchResult, fetchError>>

\* the awaited call resolves with a calendar: its days are pushed to the buffer
\* and the loop moves one year back
FetchReply ==
    /\ pc = "await"
    /\ \E days \in SeqsUpTo(UpstreamDays, MaxFetchedDays - Len(allContributions)) :
       \E cut \in 0 .. Len(days) :
          /\ allContributions' = allContributions \o FlattenWeeks(WeeksOf(days, cut))
          /\ repliedDates' = repliedDates \cup {days[i].date : i \in DOMAIN days}
    /\ currentDate' = SetFullYearBack(tz, currentDate)
    /\ pc' = "loop"
    /\ UNCHANGED <<tz, otherVars, accountCreated, now, calls, fetchResult, fetchError>>

\* the awaited call fails: the reply carries an error payload ("upstream"), its
\* user is null ("nouser": reading contributionsCollection throws), or the call
\* itself is rejected ("transport"); the error leaves the function
FetchFail ==
    /\ pc = "await"
    /\ \E kind \in {"upstream", "nouser", "transport"} : fetchError' = kind
    /\ pc' = "failed"
    /\ UNCHANGED <<tz, otherVars, accountCreated, now, currentDate,
                   allContributions, calls, repliedDates, fetchResult>>

\* the loop test fails: duplicates are removed, the list is sorted and returned
FetchReturn ==
    /\ pc = "loop"
    /\ ~(currentDate > accountCreated)
    /\ fetchResult' = FetchReturnValue(allContributions)
    /\ pc' = "done"
    /\ UNCHANGED <<tz, otherVars, accountCreated, now, currentDate,
                   allContributions, calls, repliedDates, fetchError>>

NextFetch == FetchIssue \/ FetchReply \/ FetchFail \/ FetchReturn

SpecFetch == InitFetch /\ [][NextFetch]_vars

----------------------------------------------------------------------------
(* Comparator: one request to /api/contributions/compare/:period *)

InitCompare ==
    /\ tz \in Zones
    /\ pc = "request"
    /\ contributions = <<>>
    /\ period \in ComparePeriods
    /\ now = CompareClock
    /\ calls = <<>>
    /\ currentResponse = <<>>
    /\ previousResponse = <<>>
    /\ response = <<>>
    /\ IdleResolver
    /\ IdleBrowser
    /\ IdleServer
    /\ IdleFetchLoop
    /\ IdleRolling
    /\ IdleStreaks
    /\ IdleAnalytics

compareFrame == <<tz, contributions, rollingVars, streakVars, analyticsVars,
                  resolverVars, browserVars, serverVars, period, now,
                  accountCreated, currentDate, allContributions, repliedDates,
                  fetchResult, fetchError>>

\* the handler starts: the ranges are computed and the current-period call
\* issued; toISOString of an Invalid Date throws a RangeError, which the catch
\* block answers
CompareRequest ==
    /\ pc = "request"
    /\ LET ranges == getComparisonDateRanges(period, now)
       IN  IF IsValidDate(ranges.current.from)
           THEN /\ calls' = <<CallWindow(ranges.current)>>
                /\ pc' = "awaitCurrent"
                /\ UNCHANGED response
           ELSE /\ response' = FailureResponse("RangeError")
                /\ pc' = "responded"
                /\ UNCHANGED calls
    /\ UNCHANGED <<compareFrame, currentResponse, previousResponse>>

\* the current-period call resolves: the previous-period call is issued
CompareCurrentReply ==
    /\ pc = "awaitCurrent"
    /\ \/ \E reply \in DataReplies : currentResponse' = reply
       \/ \E reply \in NoUserReplies : currentResponse' = reply
       \/ \E reply \in PartialReplies : currentResponse' = reply
    /\ calls' = Append(calls, CallWindow(getComparisonDateRanges(period, now).previous))
    /\ pc' = "awaitPrevious"
    /\ UNCHANGED <<compareFrame, previousResponse, response>>

\* the previous-period call resolves: the handler runs to its response
ComparePreviousReply ==
    /\ pc = "awaitPrevious"
    /\ \E reply \in DataReplies \cup NoUserReplies \cup PartialReplies :
          /\ previousResponse' = reply
          /\ response' = ComparisonResponse(tz, period,
                                            getComparisonDateRanges(period, now),
                                            currentResponse, reply)
    /\ pc' = "responded"
    /\ UNCHANGED <<compareFrame, calls, currentResponse>>

\* the call in flight is rejected: the catch block answers
CompareReject ==
    /\ pc \in {"awaitCurrent", "awaitPrevious"}
    /\ response' = FailureResponse("transport")
    /\ pc' = "responded"
    /\ UNCHANGED <<compareFrame, calls, currentResponse, previousResponse>>

NextCompare ==
    CompareRequest \/ CompareCurrentReply \/ ComparePreviousReply \/ CompareReject

SpecCompare == InitCompare /\ [][NextCompare]_vars

----------------------------------------------------------------------------
(* DateRange resolver: one call of getDateRange, getComparisonDateRanges or
   getRollingPeriodDays *)

InitResolver ==
    /\ tz \in Zones
    /\ pc = "call"
    /\ contributions = <<>>
    /\ period \in PeriodTokens
    /\ now \in NowSamples
    /\ calls = <<>>
    /\ currentResponse = <<>>
    /\ previousResponse = <<>>
    /\ response = <<>>
    /\ IdleResolver
    /\ IdleBrowser
    /\ IdleServer
    /\ IdleFetchLoop
    /\ IdleRolling
    /\ IdleStreaks
    /\ IdleAnalytics

resolverFrame == <<tz, contributions, rollingVars, streakVars, analyticsVars, fetchVars,
                   compareVars, browserVars, serverVars>>

CallGetDateRange ==
    /\ pc = "call"
    /\ dateRange' = getDateRange(period, now)
    /\ pc' = "done"
    /\ UNCHANGED <<resolverFrame, dateRanges, periodLength>>

CallGetComparisonDateRanges ==
    /\ pc = "call"
    /\ dateRanges' = getComparisonDateRanges(period, now)
    /\ pc' = "done"
    /\ UNCHANGED <<resolverFrame, dateRange, periodLength>>

CallGetRollingPeriodDays ==
    /\ pc = "call"
    /\ periodLength' = getRollingPeriodDays(period)
    /\ pc' = "done"
    /\ UNCHANGED <<resolverFrame, dateRange, dateRanges>>

NextResolver == CallGetDateRange \/ CallGetComparisonDateRanges \/ CallGetRollingPeriodDays

SpecResolver == InitResolver /\ [][NextResolver]_vars

----------------------------------------------------------------------------
(* Per-day route: one request to /api/contributions/:period *)

InitPerDay ==
    /\ tz \in Zones
    /\ pc = "request"
    /\ contributions = <<>>
    /\ period \in ComparePeriods
    /\ now = CompareClock
    /\ calls = <<>>
    /\ currentResponse = <<>>
    /\ previousResponse = <<>>
    /\ response = <<>>
    /\ IdleResolver
    /\ IdleBrowser
    /\ IdleServer
    /\ IdleFetchLoop
    /\ IdleRolling
    /\ IdleStreaks
    /\ IdleAnalytics

\* the handler starts: the range is computed and the call issued; when from is
\* not a Date, from.toISOString is not a function and the catch block answers
PerDayRequest ==
    /\ pc = "request"
    /\ LET range == getDateRange(period, now)
       IN  IF IsValidDate(range.from)
           THEN /\ calls' = <<CallWindow(range)>>
                /\ pc' = "awaitDay"
                /\ UNCHANGED response
           ELSE /\ response' = PerDayFailure("TypeError")
                /\ pc' = "responded"
                /\ UNCHANGED calls
    /\ UNCHANGED <<compareFrame, currentResponse, previousResponse>>

\* the call resolves: the handler runs to its response
PerDayReply ==
    /\ pc = "awaitDay"
    /\ \E reply \in PerDayReplies \cup NoUserReplies \cup PartialReplies :
          /\ currentResponse' = reply
          /\ response' = PerDayResponse(tz, period, getDateRange(period, now), reply)
    /\ pc' = "responded"
    /\ UNCHANGED <<compareFrame, calls, previousResponse>>

\* the call is rejected: the catch block answers
PerDayReject ==
    /\ pc = "awaitDay"
    /\ response' = PerDayFailure("transport")
    /\ pc' = "responded"
    /\ UNCHANGED <<compareFrame, calls, currentResponse, previousResponse>>

NextPerDay == PerDayRequest \/ PerDayReply \/ PerDayReject

SpecPerDay == InitPerDay /\ [][NextPerDay]_vars

----------------------------------------------------------------------------
(* Rolling route: one request to /api/rolling-contributions/:timeRange/:rollingPeriod;
   its run of fetchAllContributions is the actions of the upstream fetcher *)

InitRollingRoute ==
    /\ tz \in Zones
    /\ pc = "request"
    /\ contributions = <<>>
    /\ period \in RollingPeriods
    /\ currentResponse = <<>>
    /\ previousResponse = <<>>
    /\ response = <<>>
    /\ IdleRolling
    /\ IdleFetch
    /\ IdleStreaks
    /\ IdleAnalytics
    /\ IdleResolver
    /\ IdleBrowser
    /\ IdleServer

rollingFrame == <<tz, contributions, streakVars, analyticsVars, resolverVars, browserVars, serverVars, period,
                  currentResponse, previousResponse>>

\* the handler starts: the window length is resolved and the account is asked for
RollingRequest ==
    /\ pc = "request"
    /\ rollingDays' = getRollingPeriodDays(period)
    /\ pc' = "awaitUser"
    /\ UNCHANGED <<rollingFrame, fetchVars, rollingSums, response>>

\* the account call resolves: created_at and the clock are read and
\* fetchAllContributions is entered
RollingUserReply ==
    /\ pc = "awaitUser"
    /\ accountCreated' \in CreatedAtSamples
    /\ now' = RollingClock
    /\ currentDate' = RollingClock
    /\ pc' = "loop"
    /\ UNCHANGED <<rollingFrame, rollingVars, response, allContributions, calls,
                   repliedDates, fetchResult, fetchError>>

\* the account call is rejected: the catch block answers
RollingUserReject ==
    /\ pc = "awaitUser"
    /\ response' = RollingFailure(<<"transport">>)
    /\ pc' = "responded"
    /\ UNCHANGED <<rollingFrame, rollingVars, fetchVars>>

\* fetchAllContributions has returned: sums, summary and response
RollingRespond ==
    /\ pc = "done"
    /\ LET sums == calculateRollingSums(tz, fetchResult, WindowPasses(rollingDays))
       IN  /\ rollingSums' = sums
           /\ response' = [status |-> 200,
                           body |-> RollingData(period, rollingDays, sums, now,
                                                accountCreated)]
    /\ pc' = "responded"
    /\ UNCHANGED <<rollingFrame, fetchVars, rollingDays>>

\* fetchAllContributions has thrown: the catch block answers
RollingCatch ==
    /\ pc = "failed"
    /\ response' = RollingFailure(FetchErrorMessage(fetchError))
    /\ pc' = "responded"
    /\ UNCHANGED <<rollingFrame, rollingVars, fetchVars>>

NextRollingRoute ==
    \/ RollingRequest \/ RollingUserReply \/ RollingUserReject
    \/ FetchIssue \/ FetchReply \/ FetchFail \/ FetchReturn
    \/ RollingRespond \/ RollingCatch

SpecRollingRoute == InitRollingRoute /\ [][NextRollingRoute]_vars

----------------------------------------------------------------------------
(* Claims about the rolling aggregator *)

\* the sum of the values f[k] over a finite set of keys
RECURSIVE SumOver(_, _)
SumOver(f, keys) ==
    IF keys = {} THEN 0
    ELSE LET k == CHOOSE x \in keys : TRUE
         IN  f[k] + SumOver(f, keys \ {k})

HasUniqueDates(contribs) ==
    \A i, k \in DOMAIN contribs : contribs[i].date = contribs[k].date => i = k

\* the sum of the counts of the n calendar days ending on day number z
RECURSIVE CalendarWindowSum(_, _, _)
CalendarWindowSum(map, z, n) ==
    IF n = 0 THEN 0
    ELSE CalendarWindowSum(map, z, n - 1)
         + MapGetOrZero(map, CivilFromDays(z - (n - 1)))

\* C1: for every date D of the input (dates distinct) and every window W >= 1,
\* the rollingSum reported for D is the sum of the counts of D and of the W-1
\* calendar days before D, an absent day counting 0; a single entry (D, c)
\* with W = 1 yields exactly [(D, c)].
C1_RollingSumIsCalendarWindow ==
    (pc = "done" /\ HasUniqueDates(contributions)) =>
        /\ \A i \in DOMAIN rollingSums :
              rollingSums[i].rollingSum =
                  CalendarWindowSum(ContributionMap(contributions),
                                    DaysFromCivil(rollingSums[i].date[1],
                                                  rollingSums[i].date[2],
                                                  rollingSums[i].date[3]),
                                    rollingDays)
        /\ (Len(contributions) = 1 /\ rollingDays = 1) =>
              rollingSums = <<[date |-> contributions[1].date,
                               rollingSum |-> contributions[1].count]>>

\* the day number of a date string
DayNumber(dateStr) == DaysFromCivil(dateStr[1], dateStr[2], dateStr[3])

\* C13: for every input list, in any order and with repeated dates, the dates
\* of the returned points are strictly ascending and are exactly the dates of
\* the input
C13_RollingPointsDeduplicated ==
    pc = "done" =>
        /\ \A i, k \in DOMAIN rollingSums :
              i < k => DateStrLess(rollingSums[i].date, rollingSums[k].date)
        /\ {rollingSums[i].date : i \in DOMAIN rollingSums}
              = {contributions[i].date : i \in DOMAIN contributions}

\* the statement of C13 for the inputs without a repeated date
C13_RollingPointsUniqueInput ==
    HasUniqueDates(contributions) => C13_RollingPointsDeduplicated

\* C14: when the window is longer than the span from the series' first date to
\* a date D, the rollingSum of D is the sum of the counts of all entries dated
\* on or before D (the days before the first date count 0)
C14_WindowLongerThanSeries ==
    (pc = "done" /\ HasUniqueDates(contributions)) =>
        \A i \in DOMAIN rollingSums :
            LET day == DayNumber(rollingSums[i].date)
                upTo == {k \in DOMAIN contributions :
                            DayNumber(contributions[k].date) <= day}
                first == CHOOSE k \in upTo :
                            \A m \in upTo : DayNumber(contributions[k].date)
                                                <= DayNumber(contributions[m].date)
            IN  rollingDays > day - DayNumber(contributions[first].date)
                => rollingSums[i].rollingSum
                      = SumOver([k \in DOMAIN contributions |-> contributions[k].count], upTo)

\* the statement of C14 on a host without daylight saving time
C14_WindowLongerThanSeriesNoDst ==
    ~tz.dst => C14_WindowLongerThanSeries

\* C15: for a series whose counts are all 0, every returned rollingSum is 0
C15_AllZeroSeries ==
    (pc = "done" /\ \A k \in DOMAIN contributions : contributions[k].count = 0) =>
        /\ Len(rollingSums) = Len(contributions)
        /\ \A i \in DOMAIN rollingSums : rollingSums[i].rollingSum = 0

\* the sums of an all-zero series of two or more days, over a window that
\* reaches before its first date, have been computed
C15_Witness ==
    /\ pc = "done"
    /\ Len(contributions) >= 2
    /\ HasUniqueDates(contributions)
    /\ \A k \in DOMAIN contributions : contributions[k].count = 0
    /\ rollingDays >= 2
    /\ Len(rollingSums) = Len(contributions)

----------------------------------------------------------------------------
(* Streak analyzer: a call of calculateStreaks, one loop pass per step *)

InitStreaks ==
    /\ tz \in Zones
    /\ pc = "call"
    /\ contributions \in StreakInputs
    /\ sortedContributions = <<>>
    /\ scanIndex = 1
    /\ scan = ScanStart
    /\ streakAnalysis = <<>>
    /\ IdleRolling
    /\ IdleAnalytics
    /\ IdleFetch
    /\ IdleCompare
    /\ IdleResolver
    /\ IdleBrowser
    /\ IdleServer

\* entry: the early return, or the sort and the loop's initialisation
StreaksEnter ==
    /\ pc = "call"
    /\ IF Len(contributions) = 0
       THEN /\ streakAnalysis' = EmptyStreakResult
            /\ pc' = "done"
            /\ UNCHANGED sortedContributions
       ELSE /\ sortedContributions' = SortByDate(contributions)
            /\ pc' = "loop"
            /\ UNCHANGED streakAnalysis
    /\ UNCHANGED <<tz, contributions, rollingVars, analyticsVars, fetchVars,
                   compareVars, resolverVars, browserVars, serverVars, scanIndex, scan>>

\* one pass of the for loop
StreaksLoop ==
    /\ pc = "loop"
    /\ scanIndex <= Len(sortedContributions)
    /\ scan' = ScanStep(sortedContributions, scanIndex, scan)
    /\ scanIndex' = scanIndex + 1
    /\ UNCHANGED <<tz, pc, contributions, rollingVars, analyticsVars, fetchVars, compareVars, resolverVars, browserVars, serverVars,
                   sortedContributions, streakAnalysis>>

\* after the loop: the open streak is closed and the result built
StreaksReturn ==
    /\ pc = "loop"
    /\ scanIndex > Len(sortedContributions)
    /\ streakAnalysis' = StreakResult(CloseOpenStreak(sortedContributions, scan))
    /\ pc' = "done"
    /\ UNCHANGED <<tz, contributions, rollingVars, analyticsVars, fetchVars, compareVars, resolverVars, browserVars, serverVars,
                   sortedContributions, scanIndex, scan>>

NextStreaks == StreaksEnter \/ StreaksLoop \/ StreaksReturn

SpecStreaks == InitStreaks /\ [][NextStreaks]_vars

----------------------------------------------------------------------------
(* Claims about the upstream fetcher *)

\* the longest and the shortest calendar year, with the hour a change of
\* daylight time adds or removes
LongestYearHours == 366 * HoursPerDay + 1
ShortestYearHours == 365 * HoursPerDay - 1

C3_ResultUniqueSortedComplete ==
    pc = "done" =>
        /\ \A i, j \in DOMAIN fetchResult :
              /\ i # j => fetchResult[i].date # fetchResult[j].date
              /\ i < j => DateStrLess(fetchResult[i].date, fetchResult[j].date)
        /\ \A d \in repliedDates : \E i \in DOMAIN fetchResult : fetchResult[i].date = d

\* a run over two or more windows has returned; the buffered replies held a date
\* twice and out of order
C3_Witness ==
    /\ pc = "done"
    /\ Len(calls) >= 2
    /\ Len(allContributions) = 3
    /\ allContributions[1].date = allContributions[3].date
    /\ DateStrLess(allContributions[2].date, allContributions[1].date)
    /\ allContributions[1].count # allContributions[3].count
    /\ Len(fetchResult) = 2

----------------------------------------------------------------------------
(* Claims about the streak analyzer *)

ZeroEntries(contribs) == {i \in DOMAIN contribs : contribs[i].count = 0}

StreakLengths(streaks) == [k \in DOMAIN streaks |-> streaks[k].length]

\* C4: the lengths of the returned streaks plus the number of entries with
\* count 0 add up to the number of entries of the series.
C4_LengthsPlusZeroDays ==
    pc = "done" =>
        SumOver(StreakLengths(streakAnalysis.streaks), DOMAIN streakAnalysis.streaks)
            + Cardinality(ZeroEntries(contributions))
        = Len(contributions)

\* a series with a streak of several days closed by a zero-count entry, and a
\* streak still open at the end of the series
C4_Witness ==
    /\ pc = "done"
    /\ Len(streakAnalysis.streaks) = 2
    /\ streakAnalysis.streaks[1].length > 1
    /\ Cardinality(ZeroEntries(contributions)) = 1

\* ascending by date, in the order of the date strings
IsDateSorted(series) ==
    \A i \in 1 .. Len(series) - 1 : ~DateStrLess(series[i + 1].date, series[i].date)

IsPermutation(a, b) ==
    /\ Len(a) = Len(b)
    /\ \A i \in DOMAIN a :
          Cardinality({k \in DOMAIN a : a[k] = a[i]})
              = Cardinality({k \in DOMAIN b : b[k] = a[i]})

\* the maximal runs <<first, last>> of positions with count > 0
MaximalRuns(series) ==
    {r \in (DOMAIN series) \X (DOMAIN series) :
        /\ r[1] <= r[2]
        /\ \A i \in r[1] .. r[2] : series[i].count > 0
        /\ (r[1] = 1 \/ series[r[1] - 1].count = 0)
        /\ (r[2] = Len(series) \/ series[r[2] + 1].count = 0)}

\* the k-th maximal run, in position order
NthRun(runs, k) ==
    CHOOSE r \in runs : Cardinality({q \in runs : q[1] < r[1]}) = k - 1

StreakOfRun(series, r) ==
    [length |-> r[2] - r[1] + 1,
     startDate |-> series[r[1]].date,
     endDate |-> series[r[2]].date]

\* C5: the streaks are, in date order, exactly the maximal runs of consecutive
\* entries with count > 0 of the date-sorted series, each with its length and
\* the dates of its first and last entry; the series of the scenario gives the
\* single streak {2, 2024-01-02, 2024-01-03}.
C5_StreaksAreMaximalRuns ==
    pc = "done" =>
        LET sorted == sortedContributions
            runs == MaximalRuns(sorted)
            streaks == streakAnalysis.streaks
        IN  /\ IsPermutation(sorted, contributions)
            /\ IsDateSorted(sorted)
            /\ Len(streaks) = Cardinality(runs)
            /\ \A k \in DOMAIN streaks :
                  streaks[k] = StreakOfRun(sorted, NthRun(runs, k))
            /\ contributions = ScenarioSeries =>
                  streaks = <<[length |-> 2, startDate |-> <<2024, 1, 2>>,
                               endDate |-> <<2024, 1, 3>>]>>

\* an unsorted series with a run closed by a zero-count entry and a run that
\* reaches the end of the series
C5_Witness ==
    /\ pc = "done"
    /\ ~IsDateSorted(contributions)
    /\ Len(streakAnalysis.streaks) = 2
    /\ streakAnalysis.streaks[2].endDate
          = sortedContributions[Len(sortedContributions)].date

\* C6: for every input series, the empty one included, longestStreak is the
\* largest streak length (0 without streaks), totalStreaks the number of
\* streaks and averageStreakLength their mean length (0 without streaks).
C6_StreakSummary ==
    pc = "done" =>
        LET streaks == streakAnalysis.streaks
            total == SumOver(StreakLengths(streaks), DOMAIN streaks)
        IN  /\ streakAnalysis.totalStreaks = Len(streaks)
            /\ \A k \in DOMAIN streaks : streaks[k].length <= streakAnalysis.longestStreak
            /\ IF streaks = <<>>
               THEN streakAnalysis.longestStreak = 0
               ELSE \E k \in DOMAIN streaks :
                       streaks[k].length = streakAnalysis.longestStreak
            /\ "averageStreakLength" \in DOMAIN streakAnalysis
            /\ streakAnalysis.averageStreakLength[1] = "num"
            /\ streakAnalysis.averageStreakLength[2] * (IF streaks = <<>> THEN 1 ELSE Len(streaks))
                  = total * streakAnalysis.averageStreakLength[3]

\* the statement of C6 for the series that have at least one entry
C6_StreakSummaryNonEmpty ==
    Len(contributions) > 0 => C6_StreakSummary

\* C7: streakFrequency has one bucket for each length 1 .. 30 and the bucket
\* "31+"; bucket L counts the streaks of length L, "31+" those longer than 30,
\* and the buckets add up to totalStreaks.
C7_StreakHistogram ==
    pc = "done" =>
        LET streaks == streakAnalysis.streaks
            freq == streakAnalysis.streakFrequency
        IN  /\ \A L \in 1 .. 30 :
                  /\ LengthKey[L] \in DOMAIN freq
                  /\ freq[LengthKey[L]]
                        = Cardinality({k \in DOMAIN streaks : streaks[k].length = L})
            /\ "31+" \in DOMAIN freq
            /\ freq["31+"] = Cardinality({k \in DOMAIN streaks : streaks[k].length > 30})
            /\ Cardinality(DOMAIN freq) = 31
            /\ SumOver(freq, DOMAIN freq) = streakAnalysis.totalStreaks

\* the statement of C7 for the series that have at least one entry
C7_StreakHistogramNonEmpty ==
    Len(contributions) > 0 => C7_StreakHistogram

----------------------------------------------------------------------------
(* Claims about the analytics summarizer *)

Counts(contribs) == [i \in DOMAIN contribs |-> contribs[i].count]

EntriesWithCount(contribs, lo, hi) ==
    Cardinality({i \in DOMAIN contribs : lo <= contribs[i].count /\ contribs[i].count <= hi})

WeeklyCounts(a) == [i \in DOMAIN a.weeklyPattern |-> a.weeklyPattern[i].count]

----------------------------------------------------------------------------
(* Claims about the comparator *)

\* the nine metrics of `changes`
ChangeKeys ==
    {"totalCommits", "totalIssues", "totalPRs", "totalReviews", "activeDays",
     "totalContributions", "longestStreak", "totalStreaks", "averageStreakLength"}

\* the value of each metric for one period, as a fraction <<numerator,
\* denominator>>: the totals as the upstream sent them, the day metrics counted
\* over the period's contributions, the streak metrics taken over the period's
\* list of streaks (the mean length is 0 without streaks)
MetricValues(data, periodData) ==
    LET contribs == periodData.contributions
        streaks == periodData.streakAnalysis.streaks
        lengths == {streaks[i].length : i \in DOMAIN streaks}
    IN  [totalCommits |-> <<data.totalCommitContributions, 1>>,
         totalIssues |-> <<data.totalIssueContributions, 1>>,
         totalPRs |-> <<data.totalPullRequestContributions, 1>>,
         totalReviews |-> <<data.totalPullRequestReviewContributions, 1>>,
         activeDays |-> <<Cardinality({i \in DOMAIN contribs : contribs[i].count > 0}), 1>>,
         totalContributions |->
            <<SumOver([i \in DOMAIN contribs |-> contribs[i].count], DOMAIN contribs), 1>>,
         longestStreak |->
            <<IF lengths = {} THEN 0 ELSE CHOOSE l \in lengths : \A m \in lengths : m <= l, 1>>,
         totalStreaks |-> <<Len(streaks), 1>>,
         averageStreakLength |->
            IF streaks = <<>> THEN <<0, 1>>
            ELSE <<SumOver(StreakLengths(streaks), DOMAIN streaks), Len(streaks)>>]

\* change is what the claim gives for the non-negative values current and previous
IsChangeOf(change, current, previous) ==
    /\ change[1] = "num"
    /\ IF previous[1] = 0
       THEN change = <<"num", IF current[1] > 0 THEN 100 ELSE 0, 1>>
       ELSE change[2] * previous[1] * current[2]
               = 100 * (current[1] * previous[2] - previous[1] * current[2]) * change[3]

\* the claim's exact values, by <<current, previous>>
ExactChanges ==
    (<<0, 0>> :> 0) @@ (<<5, 0>> :> 100) @@ (<<0, 5>> :> -100)
        @@ (<<10, 5>> :> 100) @@ (<<5, 10>> :> -50)

\* C10: in a successful comparison, every one of the nine entries of `changes`
\* is 0 when the metric's previous and current values are 0, 100 when the
\* previous value is 0 and the current one positive, and otherwise (current -
\* previous) / previous * 100; in particular (0,0) gives 0, (5,0) gives 100,
\* (0,5) gives -100, (10,5) gives 100 and (5,10) gives -50
C10_ChangesAreCalculateChange ==
    (pc = "responded" /\ response.status = 200) =>
        LET body == response.body
            current == MetricValues(currentResponse.user.contributionsCollection, body.current)
            previous == MetricValues(previousResponse.user.contributionsCollection, body.previous)
        IN  /\ DOMAIN body.changes = ChangeKeys
            /\ \A key \in ChangeKeys :
                  /\ IsChangeOf(body.changes[key], current[key], previous[key])
                  /\ (current[key][2] = 1 /\ previous[key][2] = 1
                        /\ <<current[key][1], previous[key][1]>> \in DOMAIN ExactChanges)
                     => body.changes[key]
                           = <<"num", ExactChanges[<<current[key][1], previous[key][1]>>], 1>>

\* the statement of C10 for the comparisons in which the upstream sent at least
\* one day for each period
C10_ChangesWhenDaysReplied ==
    (pc = "responded" /\ response.status = 200
        /\ response.body.current.contributions # <<>>
        /\ response.body.previous.contributions # <<>>)
    => C10_ChangesAreCalculateChange

\* a successful comparison with days for both periods whose changes hold 100
\* twice (from 5 to 10 commits, from no active day to one) and -50 and -100
C10_Witness ==
    /\ pc = "responded"
    /\ response.status = 200
    /\ response.body.current.contributions # <<>>
    /\ response.body.previous.contributions # <<>>
    /\ response.body.current.summary.totalCommits = 10
    /\ response.body.previous.summary.totalCommits = 5
    /\ response.body.changes.totalCommits = <<"num", 100, 1>>
    /\ response.body.changes.totalIssues = <<"num", -100, 1>>
    /\ response.body.changes.totalPRs = <<"num", 100, 1>>
    /\ response.body.previous.summary.activeDays = 0
    /\ response.body.changes.activeDays = <<"num", 100, 1>>
    /\ response.body.changes.averageStreakLength = <<"num", 100, 1>>

----------------------------------------------------------------------------
(* Claims about the date range resolver *)

\* the day count the specification gives a token: unrecognized tokens use 30
ClaimedDays(token) ==
    CASE token = "1week"  -> 7
      [] token = "1month" -> 30
      [] token = "90day"  -> 90
      [] token = "6month" -> 180
      [] token = "1year"  -> 365
      [] OTHER            -> 30

\* C11: for every period token, getComparisonDateRanges returns two ranges of
\* the token's day count (30 days for an unrecognized token), with current.to =
\* now, previous.to = current.from and previous.from <= previous.to <= current.to
C11_ComparisonRanges ==
    (pc = "done" /\ dateRanges # <<>>) =>
        LET current == dateRanges.current
            previous == dateRanges.previous
        IN  /\ \A date \in {current.from, current.to, previous.from, previous.to} :
                  IsValidDate(date)
            /\ current.to[2] = now
            /\ previous.to = current.from
            /\ current.to[2] - current.from[2] = ClaimedDays(period) * HoursPerDay
            /\ previous.to[2] - previous.from[2] = ClaimedDays(period) * HoursPerDay
            /\ previous.from[2] <= previous.to[2]
            /\ previous.to[2] <= current.to[2]

\* the statement of C11 for the tokens that are not a name every object inherits
C11_ComparisonRangesOwnTokens ==
    period \notin ObjectPrototypeKeys => C11_ComparisonRanges

\* the ranges of an unrecognized token have been computed
C11_Witness ==
    /\ pc = "done"
    /\ period = "bogus"
    /\ dateRanges # <<>>
    /\ dateRanges.previous.to[2] - dateRanges.previous.from[2] = 30 * HoursPerDay

\* C12: for every token, getDateRange returns to = now and from = to minus the
\* token's day count, and getRollingPeriodDays returns that day count; a token
\* outside the five known ones gives the 30 days of 1month
C12_PeriodTokens ==
    /\ (pc = "done" /\ dateRange # <<>>) =>
          /\ dateRange.to = Date(now)
          /\ dateRange.from = Date(now - ClaimedDays(period) * HoursPerDay)
    /\ (pc = "done" /\ periodLength # <<>>) =>
          periodLength = <<"num", ClaimedDays(period), 1>>

\* the statement of C12 for the tokens that are not a name every object inherits
C12_PeriodTokensOwnTokens ==
    period \notin ObjectPrototypeKeys => C12_PeriodTokens

\* the range of an unrecognized token has been computed
C12_Witness ==
    /\ pc = "done"
    /\ period = "bogus"
    /\ dateRange # <<>>
    /\ dateRange.from = Date(now - 30 * HoursPerDay)

----------------------------------------------------------------------------
(* Claims about the rolling route *)

\* C16: in a successful response of the rolling route, totalDays is the number
\* of rolling points and accountAge the whole days in now - accountCreated,
\* rounded down; for a non-empty series maxRolling is the largest rollingSum,
\* minRolling the smallest, avgRolling the integer nearest to their mean, and
\* minRolling <= avgRolling <= maxRolling
C16_RollingSummary ==
    (pc = "responded" /\ response.status = 200) =>
        LET sums == response.body.rollingSums
            summary == response.body.summary
            total == SumOver([i \in DOMAIN sums |-> sums[i].rollingSum], DOMAIN sums)
        IN  /\ summary.totalDays = Len(sums)
            /\ summary.accountAge * HoursPerDay <= now - accountCreated
            /\ now - accountCreated < (summary.accountAge + 1) * HoursPerDay
            /\ sums # <<>> =>
                  /\ \A key \in {"maxRolling", "minRolling", "avgRolling"} :
                        summary[key][1] = "num" /\ summary[key][3] = 1
                  /\ \A i \in DOMAIN sums :
                        /\ sums[i].rollingSum <= summary.maxRolling[2]
                        /\ sums[i].rollingSum >= summary.minRolling[2]
                  /\ \E i \in DOMAIN sums : sums[i].rollingSum = summary.maxRolling[2]
                  /\ \E i \in DOMAIN sums : sums[i].rollingSum = summary.minRolling[2]
                  /\ 2 * summary.avgRolling[2] * Len(sums) - 2 * total <= Len(sums)
                  /\ 2 * total - 2 * summary.avgRolling[2] * Len(sums) <= Len(sums)
                  /\ summary.minRolling[2] <= summary.avgRolling[2]
                  /\ summary.avgRolling[2] <= summary.maxRolling[2]

\* a successful response over two windows whose rolling sums differ and whose
\* mean is not whole
C16_Witness ==
    /\ pc = "responded"
    /\ response.status = 200
    /\ Len(calls) = 2
    /\ Len(response.body.rollingSums) = 2
    /\ response.body.rollingSums[1].rollingSum = 1
    /\ response.body.rollingSums[2].rollingSum = 2
    /\ response.body.summary.avgRolling = <<"num", 2, 1>>
    /\ response.body.summary.accountAge > 365

\* C17: for an empty series the rolling route's maxRolling, minRolling and
\* avgRolling are each the number 0, and the list of rolling points is empty
C17_EmptySeriesSummary ==
    (pc = "responded" /\ response.status = 200 /\ fetchResult = <<>>) =>
        /\ response.body.rollingSums = <<>>
        /\ response.body.summary.maxRolling = <<"num", 0, 1>>
        /\ response.body.summary.minRolling = <<"num", 0, 1>>
        /\ response.body.summary.avgRolling = <<"num", 0, 1>>

\* the part of C17 that is about calculateRollingSums alone
C17_EmptySeriesSums ==
    (pc = "responded" /\ response.status = 200 /\ fetchResult = <<>>) =>
        response.body.rollingSums = <<>>

----------------------------------------------------------------------------
(* Claims about the routes' failures *)

\* the members of a response body that carry data of a period
ComparisonMembers ==
    {"current", "previous", "changes", "summary", "contributions", "analytics",
     "streakAnalysis", "comparison"}

\* a call that was rejected or never resolved, or whose reply has an errors member
CallFailed(reply) == IsNull(reply) \/ HasErrors(reply)

\* C18: in the comparison route, when the current-period call or the
\* previous-period call fails, by an error payload or by a transport failure,
\* the response is an error response with no summary, contributions,
\* analytics, streakAnalysis or changes of either period
C18_ComparisonFailsWhole ==
    (/\ pc = "responded"
     /\ calls # <<>>
     /\ CallFailed(currentResponse) \/ CallFailed(previousResponse))
        => /\ response.status \in {400, 500}
           /\ "error" \in DOMAIN response.body
           /\ DOMAIN response.body \cap ComparisonMembers = {}

\* the current-period reply is whole, the previous-period reply carries errors
\* next to a user, and the handler has answered
C18_Witness ==
    /\ pc = "responded"
    /\ Len(calls) = 2
    /\ ~IsNull(currentResponse)
    /\ ~HasErrors(currentResponse)
    /\ ~IsNull(currentResponse.user)
    /\ ~IsNull(previousResponse)
    /\ HasErrors(previousResponse)
    /\ ~IsNull(previousResponse.user)
    /\ response.status = 400

\* the response is an error response that carries every error of the reply
SurfacesErrorsOf(reply) ==
    /\ response.status \in {400, 500}
    /\ DOMAIN response.body \cap ComparisonMembers = {}
    /\ "details" \in DOMAIN response.body
    /\ \A i \in DOMAIN reply.errors :
          \E j \in DOMAIN response.body.details : response.body.details[j] = reply.errors[i]

\* C19: a reply that carries an error payload is answered by an error
\* response with the upstream error details attached, and never by a success
\* body; stated here for the replies of the comparison route
C19_ErrorPayloadSurfaced ==
    (pc = "responded" /\ calls # <<>>)
        => /\ (~IsNull(currentResponse) /\ HasErrors(currentResponse))
                  => SurfacesErrorsOf(currentResponse)
           /\ (~IsNull(previousResponse) /\ HasErrors(previousResponse))
                  => SurfacesErrorsOf(previousResponse)

\* C19, when both calls of the comparison route have resolved
C19_ErrorPayloadSurfacedBothResolved ==
    (pc = "responded" /\ ~IsNull(currentResponse) /\ ~IsNull(previousResponse))
        => /\ HasErrors(currentResponse) => SurfacesErrorsOf(currentResponse)
           /\ HasErrors(previousResponse) => SurfacesErrorsOf(previousResponse)

\* C19 on the per-day route: the errors of the reply are the details of a 400
C19_PerDayErrorPayload ==
    (pc = "responded" /\ ~IsNull(currentResponse) /\ HasErrors(currentResponse))
        => /\ response.status = 400
           /\ response.body = [error |-> "GitHub API error",
                               details |-> currentResponse.errors]

\* C19 on the rolling route: the errors of the reply are in the message of a 500
C19_RollingErrorPayload ==
    (pc = "responded" /\ fetchError = "upstream")
        => /\ response.status = 500
           /\ DOMAIN response.body = {"error", "message"}
           /\ response.body.message = <<"GitHub API error", <<"NOT_FOUND">>>>

\* C19, transport failures: a rejected call is answered by a 500 that carries
\* the error's message and no data
C19_TransportFailureSurfaced ==
    [][/\ (CompareReject \/ PerDayReject)
            => /\ response'.status = 500
               /\ DOMAIN response'.body = {"error", "message"}
               /\ response'.body.message = "transport"
       /\ (RollingUserReject \/ (RollingCatch /\ fetchError = "transport"))
            => /\ response'.status = 500
               /\ DOMAIN response'.body = {"error", "message"}
               /\ response'.body.message = <<"transport">>]_vars

\* C20: a reply whose user is null is answered as a reply that carries an
\* error payload is, by the upstream error response, and not by a success
\* body; stated here for the per-day route
C20_NullUserIsUpstreamError ==
    (pc = "responded" /\ ~IsNull(currentResponse) /\ IsNull(currentResponse.user))
        => /\ response.status = 400
           /\ response.body.error = "GitHub API error"
           /\ "details" \in DOMAIN response.body

\* C20, for a null user that comes with an errors member
C20_NullUserWithErrors ==
    (/\ pc = "responded"
     /\ ~IsNull(currentResponse)
     /\ IsNull(currentResponse.user)
     /\ HasErrors(currentResponse))
        => /\ response.status = 400
           /\ response.body = [error |-> "GitHub API error",
                               details |-> currentResponse.errors]

\* C20, no success body: a null user is answered by an error response
C20_NullUserNoSuccessBody ==
    (pc = "responded" /\ ~IsNull(currentResponse) /\ IsNull(currentResponse.user))
        => /\ response.status \in {400, 500}
           /\ "error" \in DOMAIN response.body
           /\ DOMAIN response.body \cap ComparisonMembers = {}

\* the places of a calendar's days: week and position in the week
DayPositions(weeks) ==
    UNION {{<<w, i>> : i \in DOMAIN weeks[w].contributionDays} : w \in DOMAIN weeks}

\* the per-day entry of the day at a place
EntryAt(weeks, place) ==
    [date |-> weeks[place[1]].contributionDays[place[2]].date,
     count |-> weeks[place[1]].contributionDays[place[2]].contributionCount]

\* C20, on success: the per-day list holds every day of every week of the
\* calendar exactly once
C20_FlattenEveryDayOnce ==
    (pc = "responded" /\ response.status = 200)
        => LET weeks == currentResponse.user.contributionsCollection.contributionCalendar.weeks
               flat == response.body.contributions
           IN  /\ Len(flat) = Cardinality(DayPositions(weeks))
               /\ \A place \in DayPositions(weeks) :
                     Cardinality({k \in DOMAIN flat : flat[k] = EntryAt(weeks, place)})
                       = Cardinality({other \in DayPositions(weeks) :
                                         EntryAt(weeks, other) = EntryAt(weeks, place)})

----------------------------------------------------------------------------
(* Claims about the per-day route's body *)

\* C22: the per-day route's response lists the contributions in ascending
\* date order, summary.totalDays is the number of entries and
\* summary.activeDays the number of entries with count > 0, so that
\* 0 <= activeDays <= totalDays
C22_PerDaySortedAndCounted ==
    (pc = "responded" /\ response.status = 200)
        => LET listed == response.body.contributions
               summary == response.body.summary
           IN  /\ IsDateSorted(listed)
               /\ summary.totalDays = Len(listed)
               /\ summary.activeDays =
                     Cardinality({i \in DOMAIN listed : listed[i].count > 0})
               /\ 0 <= summary.activeDays
               /\ summary.activeDays <= summary.totalDays

\* the reply's calendar is out of date order and holds a day with and a day
\* without contributions
C22_Witness ==
    /\ pc = "responded"
    /\ response.status = 200
    /\ ~IsDateSorted(FlattenWeeks(
           currentResponse.user.contributionsCollection.contributionCalendar.weeks))
    /\ response.body.summary.activeDays > 0
    /\ response.body.summary.activeDays < response.body.summary.totalDays

----------------------------------------------------------------------------
(* Claims about the order of the upstream calls *)

\* no window is called twice
NoCallRepeated ==
    \A i, j \in DOMAIN calls : calls[i] = calls[j] => i = j

\* C24: once an upstream call of a request has failed, by a transport failure
\* or by an error payload, no further upstream call is issued for the request
\* and no call is repeated; stated here for the comparison route, where the
\* current-period call is the first call
C24_FailurePropagatesImmediately ==
    /\ NoCallRepeated
    /\ (~IsNull(currentResponse) /\ HasErrors(currentResponse)) => Len(calls) = 1
    /\ (pc = "responded" /\ IsNull(currentResponse)) => Len(calls) <= 1

\* C24 on the comparison route, for transport failures and repeated calls only
C24_RejectedCallIsLast ==
    /\ NoCallRepeated
    /\ (pc = "responded" /\ IsNull(currentResponse)) => Len(calls) <= 1
    /\ (pc = "responded" /\ IsNull(previousResponse)) => response.status = 500

\* C24 on the chunked fetch: after a failed window no call is issued, and no
\* window is called twice
C24_FetchStopsAtFailure ==
    [][/\ fetchError # "none" => calls' = calls
       /\ fetchError' # "none" => calls' = calls
       /\ \A i, j \in DOMAIN calls' : calls'[i] = calls'[j] => i = j]_vars

\* the calls whose reply fetchAllContributions has processed: currentDate has
\* been moved back past the end of their window
WindowsProcessed == Cardinality({k \in DOMAIN calls : currentDate < calls[k].to})

\* the calls that have neither resolved nor been rejected
CallsInFlight ==
    Len(calls) - WindowsProcessed - (IF fetchError = "none" THEN 0 ELSE 1)

\* C25: within one run of fetchAllContributions at most one upstream call is
\* in flight, the call for the next window is issued only after the reply for
\* the window before it has been received and its days pushed to the buffer,
\* and the windows are called newest first
C25_CallsAreSequential ==
    /\ CallsInFlight \in {0, 1}
    /\ CallsInFlight = 1 <=> pc = "await"
    /\ \A d \in repliedDates :
          \E i \in DOMAIN allContributions : allContributions[i].date = d
    /\ \A k \in DOMAIN calls :
          /\ k = 1 => calls[k].to = now
          /\ k > 1 => calls[k].to < calls[k - 1].to
          /\ currentDate <= calls[k].to

\* the second call is in flight and the first reply's days are in the buffer
C25_Witness ==
    /\ pc = "await"
    /\ Len(calls) = 2
    /\ CallsInFlight = 1
    /\ allContributions # <<>>
    /\ repliedDates # {}

----------------------------------------------------------------------------
(* Claims about deduplication *)

\* the places of a date in a list, and the count at the last of them
PlacesOf(list, d) == {i \in DOMAIN list : list[i].date = d}
LastPlaceOf(list, d) ==
    CHOOSE i \in PlacesOf(list, d) : \A k \in PlacesOf(list, d) : k <= i
LastCountOf(list, d) == list[LastPlaceOf(list, d)].count

\* C26: when a date occurs more than once among the entries merged by
\* fetchAllContributions, the count returned for it is the count of its last
\* occurrence in the buffer, which is filled newest window first
C26_LastOccurrenceWins ==
    pc = "done" =>
        \A i \in DOMAIN fetchResult :
            /\ PlacesOf(allContributions, fetchResult[i].date) # {}
            /\ fetchResult[i].count = LastCountOf(allContributions, fetchResult[i].date)

\* C26 for the lookup of calculateRollingSums: with a window of one day the
\* rolling sum of a date is the count of the date's last entry
C26_RollingLookupLastWins ==
    (pc = "done" /\ rollingDays = 1)
        => \A i \in DOMAIN rollingSums :
               rollingSums[i].rollingSum = LastCountOf(contributions, rollingSums[i].date)

\* a run over two or more windows has returned and a date was buffered twice,
\* with two counts
C26_Witness ==
    /\ pc = "done"
    /\ Len(calls) >= 2
    /\ \E i, j \in DOMAIN allContributions :
          /\ i < j
          /\ allContributions[i].date = allContributions[j].date
          /\ allContributions[i].count # allContributions[j].count
          /\ j = LastPlaceOf(allContributions, allContributions[j].date)
          /\ \E k \in DOMAIN fetchResult :
                /\ fetchResult[k].date = allContributions[j].date
                /\ fetchResult[k].count = allContributions[j].count

----------------------------------------------------------------------------
(* Claims about streaks and missing days *)

\* two neighbours of the sorted series, both with activity, that are more than
\* one calendar day apart
MissingDayBetween(sorted, i) ==
    /\ sorted[i].count > 0
    /\ sorted[i + 1].count > 0
    /\ DayNumber(sorted[i + 1].date) - DayNumber(sorted[i].date) > 1

\* C27: two entries with count > 0 that are neighbours in the date-sorted
\* series are counted in the same streak of calculateStreaks even when a
\* calendar day is missing between them; a streak ends only at an entry that
\* is present with count 0, or at the end of the series
C27_MissingDayKeepsStreak ==
    pc = "done" =>
        LET sorted == SortByDate(contributions)
            streaks == streakAnalysis.streaks
        IN  /\ \A i \in 1 .. Len(sorted) - 1 :
                  (sorted[i].count > 0 /\ sorted[i + 1].count > 0)
                      => \E k \in DOMAIN streaks :
                            /\ ~DateStrLess(sorted[i].date, streaks[k].startDate)
                            /\ ~DateStrLess(streaks[k].endDate, sorted[i + 1].date)
                            /\ streaks[k].length >= 2
            /\ Len(streaks) <= Cardinality({i \in DOMAIN sorted : sorted[i].count = 0}) + 1
            /\ SumLengths(streaks)
                  = Cardinality({i \in DOMAIN sorted : sorted[i].count > 0})

\* a series with a missing day between two active entries has been analysed
\* and has a single streak
C27_Witness ==
    /\ pc = "done"
    /\ \E i \in 1 .. Len(sortedContributions) - 1 :
          MissingDayBetween(sortedContributions, i)
    /\ Len(streakAnalysis.streaks) = 1
    /\ streakAnalysis.streaks[1].length >= 2

----------------------------------------------------------------------------
(* The browser (public/app.js): calculateCurrentStreak *)

\* date.setHours(0, 0, 0, 0): midnight of the date's local day
SetHoursZero(zone, t) ==
    FromLocal(zone, (LocalTime(zone, t) \div HoursPerDay) * HoursPerDay)

\* the stable sort by (a, b) => new Date(b.date) - new Date(a.date): most
\* recent first
SortByDateDescending(contribs) ==
    LET time == [i \in DOMAIN contribs |-> ParseDate(contribs[i].date)]
        place == [i \in DOMAIN contribs |->
                    Cardinality({k \in DOMAIN contribs :
                        \/ time[i] - time[k] < 0
                        \/ time[i] - time[k] = 0 /\ k <= i})]
    IN  [p \in DOMAIN contribs |->
            contribs[CHOOSE i \in DOMAIN contribs : place[i] = p]]

\* Math.floor((today - contributionDate) / (1000 * 60 * 60 * 24))
DaysDiff(zone, today, dateStr) ==
    (today - SetHoursZero(zone, ParseDate(dateStr))) \div HoursPerDay

\* the for-of loop from entry i on: the streak when the loop ends or breaks
RECURSIVE CurrentStreakFrom(_, _, _, _, _)
CurrentStreakFrom(zone, sorted, today, i, streak) ==
    IF i > Len(sorted) THEN streak
    ELSE LET contribution == sorted[i]
             daysDiff == DaysDiff(zone, today, contribution.date)
         IN  IF daysDiff = streak /\ contribution.count > 0
             THEN CurrentStreakFrom(zone, sorted, today, i + 1, streak + 1)
             ELSE IF daysDiff = streak /\ streak = 0
             THEN CurrentStreakFrom(zone, sorted, today, i + 1, streak + 1)
             ELSE streak

calculateCurrentStreak(zone, contribs, clock) ==
    IF Len(contribs) = 0 THEN 0
    ELSE CurrentStreakFrom(zone, SortByDateDescending(contribs),
                           SetHoursZero(zone, clock), 1, 0)

\* the clock readings of the browser: early and late on 5 November 2024 (UTC),
\* two days after the end of daylight time
BrowserClocks == {ParseDate(<<2024, 11, 5>>) + 2, ParseDate(<<2024, 11, 5>>) + 14}

\* the day series shown: the days up to the UTC day of the clock reading
CurrentStreakInputs ==
    SeqsUpTo(Entries(DaysFrom(<<2024, 11, 5 - (NumCurrentDates - 1)>>, NumCurrentDates),
                     0 .. MaxCount),
             MaxCurrentLen)

InitCurrentStreak ==
    /\ tz \in Zones
    /\ pc = "call"
    /\ contributions \in CurrentStreakInputs
    /\ now \in BrowserClocks
    /\ streakDays = 0
    /\ IdlePanels
    /\ IdleServer
    /\ IdleRolling
    /\ IdleStreaks
    /\ IdleAnalytics
    /\ IdleFetchLoop
    /\ calls = <<>>
    /\ IdleCompare
    /\ IdleResolver

\* updateStatistics calls calculateCurrentStreak(contributions)
CallCurrentStreak ==
    /\ pc = "call"
    /\ streakDays' = calculateCurrentStreak(tz, contributions, now)
    /\ pc' = "done"
    /\ UNCHANGED <<tz, contributions, rollingVars, streakVars, analyticsVars, fetchVars,
                   compareVars, resolverVars, serverVars,
                   currentTimeRange, currentRollingPeriod, contributionData,
                   rollingData, display, pending, started, consoleErrors>>

NextCurrentStreak == CallCurrentStreak

SpecCurrentStreak == InitCurrentStreak /\ [][NextCurrentStreak]_vars

\* today's date on the host's calendar
LocalToday(zone, clock) == CivilFromDays(LocalTime(zone, clock) \div HoursPerDay)

\* a day with an entry of count > 0
IsActiveDay(contribs, day) ==
    \E i \in DOMAIN contribs : DayNumber(contribs[i].date) = day /\ contribs[i].count > 0

\* the length of the run of active calendar days that ends on a day
RECURSIVE RunEndingOn(_, _, _)
RunEndingOn(contribs, day, left) ==
    IF left = 0 \/ ~IsActiveDay(contribs, day) THEN 0
    ELSE 1 + RunEndingOn(contribs, day - 1, left - 1)

\* the current streak: the run that ends today, or the run that ends
\* yesterday when today has no contribution
ConsecutiveDaysUpToToday(contribs, today) ==
    IF IsActiveDay(contribs, today)
    THEN RunEndingOn(contribs, today, Len(contribs))
    ELSE RunEndingOn(contribs, today - 1, Len(contribs))

\* C23: calculateCurrentStreak returns the length of the run of consecutive
\* calendar days with count > 0 that ends today, or yesterday when today has
\* count 0; it is never larger than the number of entries with count > 0 and
\* is 0 when no entry has count > 0
C23_CurrentStreak ==
    pc = "done" =>
        LET active == Cardinality({i \in DOMAIN contributions : contributions[i].count > 0})
            today == DayNumber(LocalToday(tz, now))
        IN  /\ (\E i \in DOMAIN contributions : DayNumber(contributions[i].date) = today)
                  => streakDays = ConsecutiveDaysUpToToday(contributions, today)
            /\ streakDays <= active
            /\ active = 0 => streakDays = 0

\* C23 on a host in UTC, for a series of distinct dates whose entry of today
\* has count > 0
C23_CurrentStreakTodayActiveUtc ==
    (/\ pc = "done"
     /\ tz.name = "UTC"
     /\ HasUniqueDates(contributions)
     /\ IsActiveDay(contributions, DayNumber(LocalToday(tz, now))))
        => streakDays = ConsecutiveDaysUpToToday(contributions,
                            DayNumber(LocalToday(tz, now)))

----------------------------------------------------------------------------
(* The browser (public/app.js): the loaders and the three panels *)

\* the values of the two selects; "1month" is the constructor's value of both
TimeRanges == {"1month", "1week"}
RollingSelections == {"1month", "1week"}

\* showLoading, showError and showContent: style.display of the three panels
ShowLoading == [loading |-> "block", mainContent |-> "none", errorMessage |-> "none"]
\* showError without hiding the loading panel
ShowError_LoadingKept ==
    [loading |-> display.loading, mainContent |-> "none", errorMessage |-> "block"]
ShowError == [loading |-> "none", mainContent |-> "none", errorMessage |-> "block"]
ShowContent == [loading |-> "none", mainContent |-> "block", errorMessage |-> "none"]

\* fetch(`/api/contributions/${period}`), the n-th fetch of the page
ContributionsFetch(n, range) ==
    [id |-> n, loader |-> "contributions", period |-> range, timeRange |-> range]

\* fetch(`/api/rolling-contributions/${this.currentTimeRange}/${rollingPeriod}`)
RollingFetch(n, range, rollingPeriod) ==
    [id |-> n, loader |-> "rolling", period |-> rollingPeriod, timeRange |-> range]

\* the body of the response to a fetch
DataOf(fetch) == [request |-> fetch.id, period |-> fetch.period, timeRange |-> fetch.timeRange]

\* the fetches a loadContributions in flight will start when it succeeds
RollingLoadsOwed ==
    Cardinality({f \in pending : f.loader = "contributions"})

\* room for n more fetches, and for those the loads in flight will start
HasRoomFor(n) == started + RollingLoadsOwed + n <= MaxFetches

browserFrame == <<tz, pc, contributions, rollingVars, streakVars, analyticsVars,
                  fetchVars, compareVars, resolverVars, serverVars, streakDays>>

\* the state after new GitGraph(): init() has called loadContributions("1month"),
\* whose fetch is in flight
InitBrowser ==
    /\ tz \in Zones
    /\ pc = "idle"
    /\ contributions = <<>>
    /\ currentTimeRange = "1month"
    /\ currentRollingPeriod = "1month"
    /\ contributionData = <<>>
    /\ rollingData = <<>>
    /\ display = ShowLoading
    /\ pending = {ContributionsFetch(1, "1month")}
    /\ started = 1
    /\ consoleErrors = {}
    /\ streakDays = 0
    /\ IdleServer
    /\ IdleRolling
    /\ IdleStreaks
    /\ IdleAnalytics
    /\ IdleFetch
    /\ IdleCompare
    /\ IdleResolver

\* timeRangeSelect "change": currentTimeRange is set and loadContributions
\* runs to its await
SelectTimeRange ==
    /\ HasRoomFor(2)
    /\ \E range \in TimeRanges :
          /\ currentTimeRange' = range
          /\ pending' = pending \cup {ContributionsFetch(started + 1, range)}
    /\ display' = ShowLoading
    /\ started' = started + 1
    /\ UNCHANGED <<browserFrame, currentRollingPeriod, contributionData, rollingData,
                   consoleErrors>>

\* rollingPeriodSelect "change": currentRollingPeriod is set and
\* loadRollingContributions runs to its await
SelectRollingPeriod ==
    /\ HasRoomFor(1)
    /\ \E rollingPeriod \in RollingSelections :
          /\ currentRollingPeriod' = rollingPeriod
          /\ pending' = pending \cup
                {RollingFetch(started + 1, currentTimeRange, rollingPeriod)}
    /\ started' = started + 1
    /\ UNCHANGED <<browserFrame, currentTimeRange, contributionData, rollingData,
                   display, consoleErrors>>

\* refreshBtn "click": both loaders run to their awaits
ClickRefresh ==
    /\ HasRoomFor(3)
    /\ pending' = pending \cup
          {ContributionsFetch(started + 1, currentTimeRange),
           RollingFetch(started + 2, currentTimeRange, currentRollingPeriod)}
    /\ display' = ShowLoading
    /\ started' = started + 2
    /\ UNCHANGED <<browserFrame, currentTimeRange, currentRollingPeriod,
                   contributionData, rollingData, consoleErrors>>

\* loadContributions resumes with an ok response: the data is stored and
\* drawn, loadRollingContributions is called, the content panel is shown
ContributionsLoaded ==
    /\ \E f \in pending :
          /\ f.loader = "contributions"
          /\ contributionData' = DataOf(f)
          /\ pending' = (pending \ {f}) \cup
                {RollingFetch(started + 1, currentTimeRange, currentRollingPeriod)}
    /\ started' = started + 1
    /\ display' = ShowContent
    /\ UNCHANGED <<browserFrame, currentTimeRange, currentRollingPeriod, rollingData,
                   consoleErrors>>

\* loadContributions resumes with an ok response and one of the update calls
\* throws on its body: the data is stored, the catch block shows the error
ContributionsUpdateThrows ==
    /\ \E f \in pending :
          /\ f.loader = "contributions"
          /\ contributionData' = DataOf(f)
          /\ pending' = pending \ {f}
    /\ consoleErrors' = consoleErrors \cup {"contributions"}
    /\ display' = ShowError
    /\ UNCHANGED <<browserFrame, currentTimeRange, currentRollingPeriod, rollingData,
                   started>>

\* loadContributions resumes with a response that is not ok, or its fetch is
\* rejected: the catch block shows the error
ContributionsFailed ==
    /\ \E f \in pending :
          /\ f.loader = "contributions"
          /\ pending' = pending \ {f}
    /\ consoleErrors' = consoleErrors \cup {"contributions"}
    /\ display' = ShowError
    /\ UNCHANGED <<browserFrame, currentTimeRange, currentRollingPeriod,
                   contributionData, rollingData, started>>

\* loadRollingContributions resumes with an ok response
RollingLoaded ==
    /\ \E f \in pending :
          /\ f.loader = "rolling"
          /\ rollingData' = DataOf(f)
          /\ pending' = pending \ {f}
    /\ UNCHANGED <<browserFrame, currentTimeRange, currentRollingPeriod,
                   contributionData, display, started, consoleErrors>>

\* loadRollingContributions resumes with a response that is not ok, its fetch
\* is rejected or an update call throws: the error is logged
RollingLoadFailed ==
    /\ \E f \in pending :
          /\ f.loader = "rolling"
          /\ pending' = pending \ {f}
    /\ consoleErrors' = consoleErrors \cup {"rolling"}
    /\ UNCHANGED <<browserFrame, currentTimeRange, currentRollingPeriod,
                   contributionData, rollingData, display, started>>

NextBrowser ==
    \/ SelectTimeRange \/ SelectRollingPeriod \/ ClickRefresh
    \/ ContributionsLoaded \/ ContributionsUpdateThrows \/ ContributionsFailed
    \/ RollingLoaded \/ RollingLoadFailed

SpecBrowser == InitBrowser /\ [][NextBrowser]_vars

\* C28: when a new time range is selected while an earlier loadContributions
\* is in flight, then once every fetch has completed the data shown is the
\* response for the selected time range, in whatever order the responses
\* arrive; stated here for loads that have all succeeded
C28_ShownDataIsOfSelectedRange ==
    (pending = {} /\ display = ShowContent /\ "contributions" \notin consoleErrors)
        => contributionData.period = currentTimeRange

\* the panels that are displayed
PanelsDisplayed == {panel \in DOMAIN display : display[panel] = "block"}

\* C29: at every point after the first loadContributions call has started,
\* exactly one of the panels loading, mainContent and errorMessage is
\* displayed, and a failure of loadRollingContributions does not change which
C29_ExactlyOnePanel ==
    /\ [](/\ DOMAIN display = {"loading", "mainContent", "errorMessage"}
          /\ Cardinality(PanelsDisplayed) = 1)
    /\ [][RollingLoadFailed => display' = display]_vars

\* loads have succeeded and failed, a rolling load has failed, and a load is
\* in flight again
C29_Witness ==
    /\ "rolling" \in consoleErrors
    /\ "contributions" \in consoleErrors
    /\ contributionData # <<>>
    /\ display = ShowLoading
    /\ started >= 3

----------------------------------------------------------------------------
(* Concurrent requests: per-day handlers and fetchAllContributions runs that
   interleave at their awaits *)

Requests == 1 .. NumRequests

\* the array a handler pushes its days to: dailyContributions of the per-day
\* handler and allContributions of fetchAllContributions are local constants,
\* one array per invocation
\* one module-level array for every invocation
BufferOf_ModuleLevel(r) == 1
BufferOf(r) == r

\* the day lists the upstream sends to these requests
ConcurrentDayLists ==
    { <<>>,
      <<[date |-> <<2023, 6, 14>>, contributionCount |-> 1]>>,
      <<[date |-> <<2023, 6, 15>>, contributionCount |-> 2]>> }

ConcurrentTotals ==
    [totalCommitContributions |-> 5, totalIssueContributions |-> 10,
     totalPullRequestContributions |-> 0, totalPullRequestReviewContributions |-> 0]

\* a reply with a user, and the replies without
ConcurrentReply(days) ==
    [errors |-> <<>>,
     user |-> [contributionsCollection |-> Collection(ConcurrentTotals, days)]]
ConcurrentDataReplies == {ConcurrentReply(days) : days \in ConcurrentDayLists}

\* a request as it arrives: its route, the clock reading it will take and, for
\* a fetchAllContributions run, the account's creation (one or two windows)
ArrivingRequests ==
    {[route |-> "perday", pc |-> "start", token |-> "1week", clock |-> CompareClock,
      created |-> 0, currentDate |-> 0, replies |-> <<>>, outcome |-> <<>>]}
    \cup
    {[route |-> "fetch", pc |-> "start", token |-> "", clock |-> RollingClock,
      created |-> RollingClock - k * HalfYearHours, currentDate |-> 0,
      replies |-> <<>>, outcome |-> <<>>] : k \in {1, 3}}

\* the days of the replies a request has received, in the order received
RECURSIVE DaysReceived(_)
DaysReceived(replies) ==
    IF replies = <<>> THEN <<>>
    ELSE (IF IsNull(Head(replies).user) THEN <<>>
          ELSE FlattenWeeks(
                  Head(replies).user.contributionsCollection.contributionCalendar.weeks))
         \o DaysReceived(Tail(replies))

concurrentFrame == <<tz, pc, contributions, rollingVars, streakVars, analyticsVars,
                     fetchVars, compareVars, resolverVars, browserVars>>

InitConcurrent ==
    /\ tz \in Zones
    /\ pc = "idle"
    /\ contributions = <<>>
    /\ requests \in [Requests -> ArrivingRequests]
    /\ buffers = [r \in Requests |-> <<>>]
    /\ IdleBrowser
    /\ IdleRolling
    /\ IdleStreaks
    /\ IdleAnalytics
    /\ IdleFetch
    /\ IdleCompare
    /\ IdleResolver

\* a handler runs to its first await: the per-day handler issues its call,
\* fetchAllContributions copies now into currentDate
ConcurrentStart(r) ==
    /\ requests[r].pc = "start"
    /\ requests' = [requests EXCEPT
          ![r].pc = IF requests[r].route = "perday" THEN "await" ELSE "loop",
          ![r].currentDate = IF requests[r].route = "perday" THEN 0 ELSE requests[r].clock]
    /\ UNCHANGED <<concurrentFrame, buffers>>

\* the per-day handler's call resolves with a user: the days are pushed,
\* sorted and sent
ConcurrentPerDayReply(r) ==
    /\ requests[r].route = "perday"
    /\ requests[r].pc = "await"
    /\ \E reply \in ConcurrentDataReplies :
          LET data == reply.user.contributionsCollection
              range == getDateRange(requests[r].token, requests[r].clock)
              pushed == buffers[BufferOf(r)]
                            \o FlattenWeeks(data.contributionCalendar.weeks)
          IN  /\ buffers' = [buffers EXCEPT ![BufferOf(r)] = pushed]
              /\ requests' = [requests EXCEPT
                    ![r].replies = Append(@, reply),
                    ![r].pc = "responded",
                    ![r].outcome =
                        [status |-> 200,
                         body |-> PerDayBody(tz, requests[r].token, range, data,
                                             SortByDate(pushed))]]
    /\ UNCHANGED concurrentFrame

\* the per-day handler's call resolves without a user, or is rejected
ConcurrentPerDayFail(r) ==
    /\ requests[r].route = "perday"
    /\ requests[r].pc = "await"
    /\ \/ \E reply \in NoUserReplies :
             requests' = [requests EXCEPT
                ![r].replies = Append(@, reply),
                ![r].pc = "responded",
                ![r].outcome = PerDayResponse(tz, requests[r].token,
                                   getDateRange(requests[r].token, requests[r].clock),
                                   reply)]
       \/ requests' = [requests EXCEPT
             ![r].pc = "responded",
             ![r].outcome = PerDayFailure("transport")]
    /\ UNCHANGED <<concurrentFrame, buffers>>

\* fetchAllContributions: the loop test holds and the window's call is issued
ConcurrentFetchIssue(r) ==
    /\ requests[r].route = "fetch"
    /\ requests[r].pc = "loop"
    /\ requests[r].currentDate > requests[r].created
    /\ requests' = [requests EXCEPT ![r].pc = "await"]
    /\ UNCHANGED <<concurrentFrame, buffers>>

\* fetchAllContributions: the call resolves, the days are pushed and
\* currentDate moves a year back
ConcurrentFetchReply(r) ==
    /\ requests[r].route = "fetch"
    /\ requests[r].pc = "await"
    /\ \E reply \in ConcurrentDataReplies :
          /\ buffers' = [buffers EXCEPT ![BufferOf(r)] =
                @ \o FlattenWeeks(
                        reply.user.contributionsCollection.contributionCalendar.weeks)]
          /\ requests' = [requests EXCEPT
                ![r].replies = Append(@, reply),
                ![r].currentDate = SetFullYearBack(tz, @),
                ![r].pc = "loop"]
    /\ UNCHANGED concurrentFrame

\* fetchAllContributions: the call fails and the error leaves the function
ConcurrentFetchFail(r) ==
    /\ requests[r].route = "fetch"
    /\ requests[r].pc = "await"
    /\ \E kind \in {"upstream", "transport"} :
          requests' = [requests EXCEPT
             ![r].pc = "responded",
             ![r].outcome = [thrown |-> FetchErrorMessage(kind)]]
    /\ UNCHANGED <<concurrentFrame, buffers>>

\* fetchAllContributions: the loop test fails and the list is returned
ConcurrentFetchReturn(r) ==
    /\ requests[r].route = "fetch"
    /\ requests[r].pc = "loop"
    /\ ~(requests[r].currentDate > requests[r].created)
    /\ requests' = [requests EXCEPT
          ![r].pc = "responded",
          ![r].outcome = [returned |-> FetchReturnValue(buffers[BufferOf(r)])]]
    /\ UNCHANGED <<concurrentFrame, buffers>>

NextConcurrent ==
    \E r \in Requests :
        \/ ConcurrentStart(r)
        \/ ConcurrentPerDayReply(r)
        \/ ConcurrentPerDayFail(r)
        \/ ConcurrentFetchIssue(r)
        \/ ConcurrentFetchReply(r)
        \/ ConcurrentFetchFail(r)
        \/ ConcurrentFetchReturn(r)

SpecConcurrent == InitConcurrent /\ [][NextConcurrent]_vars

\* what a request answers when it runs alone with the replies it received
OutcomeAlone(request) ==
    IF request.route = "perday"
    THEN PerDayResponse(tz, request.token, getDateRange(request.token, request.clock),
                        request.replies[1])
    ELSE [returned |-> FetchReturnValue(DaysReceived(request.replies))]

\* C21: requests share no mutable state: in every interleaving of concurrent
\* requests at their awaits, each request answers what it would answer alone
\* with the same upstream replies and clock readings, and the buffer of a
\* request holds the days of its own replies and no others
C21_RequestsAreIsolated ==
    \A r \in Requests :
        /\ buffers[r] = DaysReceived(requests[r].replies)
        /\ (requests[r].pc = "responded" /\ requests[r].replies # <<>>
                /\ "thrown" \notin DOMAIN requests[r].outcome)
              => requests[r].outcome = OutcomeAlone(requests[r])

\* two requests have interleaved: each received days while the other was at an
\* await, and both have answered
C21_Witness ==
    /\ \A r \in Requests : requests[r].pc = "responded"
    /\ \E r, q \in Requests :
          /\ r # q
          /\ requests[r].route = "fetch"
          /\ Len(requests[r].replies) = 2
          /\ buffers[r] # <<>>
          /\ buffers[q] # <<>>
          /\ buffers[r] # buffers[q]
          /\ "returned" \in DOMAIN requests[r].outcome

----------------------------------------------------------------------------
(* Data routes: one request to the per-day, the comparison or the rolling
   route, with every upstream call resolving or rejecting in the end *)

\* before the handler runs: no range, no window length and no reply yet
InitRoutes ==
    /\ tz \in Zones
    /\ pc = "request"
    /\ contributions = <<>>
    /\ period \in RollingPeriods
    /\ now = CompareClock
    /\ calls = <<>>
    /\ currentResponse = <<>>
    /\ previousResponse = <<>>
    /\ response = <<>>
    /\ rollingDays = Undefined
    /\ rollingSums = <<>>
    /\ IdleResolver
    /\ IdleBrowser
    /\ IdleServer
    /\ IdleFetchLoop
    /\ IdleStreaks
    /\ IdleAnalytics

\* the request is routed to one of the three handlers
RouteRequest == PerDayRequest \/ CompareRequest \/ RollingRequest

\* a call in flight resolves or is rejected and the handler resumes
RouteResume ==
    \/ PerDayReply \/ PerDayReject
    \/ CompareCurrentReply \/ ComparePreviousReply \/ CompareReject
    \/ RollingUserReply \/ RollingUserReject
    \/ FetchReply \/ FetchFail

\* the synchronous steps of the rolling route between two awaits
RouteRun == FetchIssue \/ FetchReturn \/ RollingRespond \/ RollingCatch

NextRoutes == RouteRequest \/ RouteResume \/ RouteRun

\* the positions of a handler
RouteLabels ==
    {"request", "awaitDay", "awaitCurrent", "awaitPrevious", "awaitUser",
     "loop", "await", "done", "failed", "responded"}

\* the handler leaves its position: at an await because the call has settled,
\* elsewhere because the event loop runs it on
HandlerAdvances == pc # "responded" /\ pc' \in RouteLabels \ {pc}

\* no upstream call stays pending for ever, and a handler that can run is run
SpecRoutes == InitRoutes /\ [][NextRoutes]_vars /\ WF_pc(HandlerAdvances)

Answered == ~IsNull(response)

\* C30: every request to a data route ends with exactly one response, a success
\* body, a 400 or a 500, whatever the upstream calls return or throw, provided
\* every upstream call eventually resolves or rejects: a response is sent in
\* the end, and once one is sent no other follows
C30_ExactlyOneResponse ==
    /\ <>[](Answered /\ pc = "responded" /\ response.status \in {200, 400, 500})
    /\ [](pc \in RouteLabels /\ (Answered <=> pc = "responded"))
    /\ [][pc' # pc /\ ~Answered]_vars

\* the rolling route has answered after two upstream windows, one of them
\* rejected
C30_Witness ==
    /\ pc = "responded"
    /\ Answered
    /\ response.status = 500
    /\ Len(calls) = 2
    /\ fetchError # "none"

====
